---- MODULE Spec2Model ----
(***************************************************************************)
(* NexLock module firmware: the session and command-relay layer.           *)
(*                                                                         *)
(* The model follows the ESP32 control loop (setup / loop), the            *)
(* ServerManager over a raw WebSocket (flat JSON envelopes), the two       *)
(* HardwareManager builds (Direct: local servos; Relayed: a secondary      *)
(* Arduino controller behind a 3-byte serial protocol), the persisted      *)
(* Preferences store, and the Arduino controller sketch.                   *)
(*                                                                         *)
(* Serial bytes are ASCII codes; times are millis() since boot.            *)
(***************************************************************************)
EXTENDS Integers, Sequences, FiniteSets, TLC

(* ---------------- program constants ---------------- *)

PING_INTERVAL == 60000

AVAILABLE_BROADCAST_INTERVAL == 15000

SERIAL_TIMEOUT == 1000

MAX_LOCKERS == 3

RECONNECT_INTERVAL == 5000

CONFIG_RESTART_DELAY == 2000

CONFIG_BUTTON_HOLD_TIME == 5000

DIRECT_ACTUATION_DELAY == 1500

\* delay(2000) of the Sensor build's unlockLocker
SENSOR_ACTUATION_DELAY == 2000

\* window in which a scan awaits its validation
NFC_TIMEOUT == 3000

\* time readPassiveTargetID waits for a card
NFC_READ_TIMEOUT == 100

\* delay(2000) after the "NFC Timeout" notice and after a validation result is shown
NFC_NOTICE_DELAY == 2000

\* delay(100) at the end of loop()
LOOP_DELAY == 100

WIFI_ATTEMPT_DELAY == 1000

\* attempts connectToWiFi makes before it gives up
WIFI_CONNECTION_TIMEOUT == 20

\* delay(3000) of handleWiFiDisconnection after a failed connectToWiFi
WIFI_RETRY_DELAY == 3000

LOCK_POSITION == 0

OPEN_POSITION == 90

CMD_LOCK == 76

CMD_UNLOCK == 85

CMD_STATUS == 83

CMD_ONLINE == 79

CMD_OFFLINE == 70

RESP_LOCKED == 49

RESP_UNLOCKED == 50

RESP_ACK == 65

RESP_ERROR == 69

ASCII_ZERO == 48

(* ---------------- bounds of the model ---------------- *)

\* granularity with which millis() advances between loop iterations
TickMs == 5000

\* millis() is not advanced by Tick beyond this value while the backend is active
MaxTime == 10000

\* the same, for the long runs: an unconfigured device with the Direct
\* HardwareManager (ServerManager's timers do not depend on the serial link),
\* to which the backend sends at most MaxMsgsIdle messages
MaxTimeIdle == 35000

\* inbound messages of a run with the long horizon
MaxMsgsIdle == 1

\* millis() bound of the runs in which WiFi may fail
MaxTimeLive == 45000

\* millis() bound of the runs of the Sensor build
MaxTimeStation == 8200

\* NFC cards presented over a run of the Sensor build with steady IR readings
MaxCards == 2

\* NFC cards presented over a run of the Sensor build with changing IR readings
MaxCardsSensing == 1

\* changes of an IR reading over a run of the Sensor build
MaxFlips == 2

\* number of boots (power-on plus restarts) explored
MaxBoots == 2

\* inbound messages the backend sends over the whole run
MaxMsgs == 2

\* inbound messages of a run that follows the serial bytes one by one
MaxMsgsBytes == 1

\* inbound messages of a run with configuration pushes to the Sensor build
MaxMsgsConfig == 2

\* capacity of the transport receive buffer, in messages
MaxInbox == 1

\* capacity of the serial link towards the Arduino, in bytes
MaxTx == 4

\* capacity of the serial link towards the ESP32, in bytes
MaxRx == 9

(* ---------------- inputs ---------------- *)

\* hardware-derived identifier of this device, and a foreign one
MacAddress == "AA:BB"

OtherMac == "CC:DD"

\* WiFi attempts (1 s each) before setup() reaches ServerManager::initialize
BootAttempts == {1, 5}

\* locker ids an nfc-validation-result may name: a configured one and a foreign one
NfcLockerIds == {"L1", "L3"}

\* locker ids a lock / unlock command may name
CommandLockerIds == {"L1", "L2"}

NoLockerIds == << >>

\* frames no handler exists for: text that does not parse, an object without
\* a "type" member, and a type (or event name) the build does not know
UnhandledKinds == {"malformed", "untyped", "unknown"}

\* module_configured pushes the backend may send
Pushes ==
  { [moduleId |-> "M1", lockerIds |-> <<"L1", "L2">>, targetIdentity |-> MacAddress],
    [moduleId |-> "M2", lockerIds |-> <<"L2">>, targetIdentity |-> MacAddress],
    [moduleId |-> "M1", lockerIds |-> <<"L1", "L2">>, targetIdentity |-> OtherMac],
    [moduleId |-> "M1", lockerIds |-> NoLockerIds, targetIdentity |-> MacAddress],
    [moduleId |-> "M1", lockerIds |-> <<"L1", "L2", "L1", "L2">>, targetIdentity |-> MacAddress],
    [moduleId |-> "", lockerIds |-> <<"L1">>, targetIdentity |-> MacAddress] }

VARIABLES
  variant,                \* build: "Direct", "Relayed" or "Sensor" (IR sensors and NFC) HardwareManager
  framing,                \* build: "flat" {type,...} envelopes or "array" 42["event",payload] envelopes
  env,                    \* what may still fail: "server-faults", "all-faults" (WiFi too),
                          \* "store-faults" (Preferences writes too) or "calm"; "button",
                          \* "configuring" and "slow-serial" are runs that follow the config
                          \* button, the configuration pushes to a Sensor build, and the
                          \* arrival of the serial bytes one by one
  wifiUp,                 \* wifiManager->isConnected()
  serverReady,            \* serverManager != nullptr
  prefs,                  \* Preferences store: moduleId, numLockers, locker[0..2], provisioned
  hwModuleId,             \* HardwareManager::moduleId
  hwConfigured,           \* HardwareManager::isConfigured
  numLockers,             \* HardwareManager::numLockers
  lockers,                \* HardwareManager::lockers (<< >> when not allocated)
  lastStatusRequest,      \* HardwareManager::lastStatusRequest (Relayed build)
  smModuleId,             \* ServerManager::moduleId
  smConfigured,           \* ServerManager::isConfigured
  isConnected,            \* ServerManager::isConnected
  lastPing,               \* ServerManager::lastPing
  lastReconnectAttempt,   \* ServerManager::lastReconnectAttempt
  lastAvailableBroadcast, \* ServerManager::lastAvailableBroadcast
  now,                    \* millis()
  pc,                     \* position of the control loop
  cur,                    \* the lock / unlock command handled in this poll(), if any
  pending,                \* per locker id: commands forwarded to the actuator and not completed
  result,                 \* what unlockLocker / lockLocker returned in this poll(), if called
  inbox,                  \* transport receive buffer (server -> device), in arrival order
  linkUp,                 \* the transport connection exists
  sent,                   \* messages written to the transport by the last step
  tx,                     \* serial bytes ESP32 -> Arduino, not yet read by the Arduino
  rx,                     \* serial bytes Arduino -> ESP32, not yet read by the ESP32
  ardLocked,              \* Arduino: lockers[i].isLocked, i in 1..3
  esp32Online,            \* Arduino: esp32Online
  ardStatusDue,           \* Arduino: millis() - lastStatusSend >= 2000
  boots,                  \* number of boots so far
  budget,                 \* inbound messages the backend may still send
  connectAt,              \* millis() of the last webSocket->connect() of this boot (-1: none)
  connectGap,             \* millis() between the last two connect() calls of this boot (-1: fewer)
  connectCalled,          \* the last step called webSocket->connect()
  horizon,                \* millis() bound of this run
  lastBroadcastAt,        \* millis() of the last module_available sent in this boot (-1: none)
  broadcastGap,           \* millis() between the last two module_available of this boot (-1: fewer)
  lastPingAt,             \* millis() of the last ping sent in this boot (-1: none)
  pingGap,                \* millis() between the last two pings of this boot (-1: fewer)
  restartCause,           \* why a restart is under way ("none" once setup() has run)
  preConfig,              \* memory and store as they were when the push that restarts was dispatched
  waitingForValidation,   \* HardwareManager::waitingForValidation (Sensor build)
  nfcScanTime,            \* HardwareManager::nfcScanTime
  lastStatusCheck,        \* the sketch's lastStatusCheck
  isOccupied,             \* lockers[i].isOccupied, by slot 1..MAX_LOCKERS
  lastStatusUpdate,       \* lockers[i].lastStatusUpdate, by slot 1..MAX_LOCKERS
  irBlocked,              \* what checkIRSensor would read now, by slot 1..MAX_LOCKERS
  cards,                  \* NFC cards that may still be presented
  flips,                  \* changes of an IR reading that may still happen
  buttonPressed,          \* checkConfigButton's static buttonPressed
  pressStart,             \* checkConfigButton's static pressStart
  lowSince                \* millis() of the first of the unbroken run of polls of this boot
                          \* that read the config button pressed (-1: the last poll, if any,
                          \* read it released)

vars == << variant, framing, env, wifiUp, serverReady, prefs, hwModuleId, hwConfigured, numLockers, lockers, lastStatusRequest,
           smModuleId, smConfigured, isConnected, lastPing, lastReconnectAttempt,
           lastAvailableBroadcast, now, pc, cur, pending, result, inbox, linkUp, sent,
           tx, rx, ardLocked, esp32Online, ardStatusDue, boots, budget, connectAt,
           connectGap, connectCalled, lastBroadcastAt, broadcastGap, lastPingAt, pingGap,
           restartCause, preConfig, horizon, waitingForValidation, nfcScanTime,
           lastStatusCheck, isOccupied, lastStatusUpdate, irBlocked, cards, flips,
           buttonPressed, pressStart, lowSince >>

storeVars == << variant, framing, env, prefs, horizon >>

hwIdVars == << hwModuleId, hwConfigured, numLockers >>

smIdVars == << smModuleId, smConfigured >>

timerVars == << lastPing, lastAvailableBroadcast >>

ardVars == << ardLocked, esp32Online, ardStatusDue >>

connectLog == << connectAt, connectGap >>

pingLog == << lastPingAt, pingGap >>

\* what ServerManager::loop's timers have sent
broadcastLog == << lastBroadcastAt, broadcastGap, pingLog >>

restartLog == << restartCause, preConfig >>

stationVars == << waitingForValidation, nfcScanTime, lastStatusCheck, isOccupied,
                  lastStatusUpdate, irBlocked, cards, flips >>

buttonVars == << buttonPressed, pressStart, lowSince >>

(* ---------------- helpers ---------------- *)

NoCommand == [lockerId |-> "", kind |-> "none", slot |-> 0, startTime |-> 0, late |-> FALSE]

NoSnapshot == [taken |-> FALSE]

\* an outbound envelope of the flat framing
Envelope(type, moduleId, lockerId, status) ==
  [type |-> type, moduleId |-> moduleId, lockerId |-> lockerId, status |-> status]

EmptyPrefs ==
  [moduleId |-> "", numLockers |-> 0, locker |-> [i \in 0..(MAX_LOCKERS - 1) |-> ""],
   provisioned |-> TRUE]

\* variation: a lookup that falls back to the first locker
FindLockerOrFirst(ls, n, lockerId) ==
  LET hits == { i \in 1..n : i <= Len(ls) /\ ls[i].lockerId = lockerId }
  IN  IF hits = {} THEN (IF n > 0 THEN 1 ELSE 0)
      ELSE CHOOSE i \in hits : \A j \in hits : i <= j

\* index of the first locker whose id is lockerId, 0 when there is none
FindLocker(ls, n, lockerId) ==
  LET hits == { i \in 1..n : i <= Len(ls) /\ ls[i].lockerId = lockerId }
  IN  IF hits = {} THEN 0 ELSE CHOOSE i \in hits : \A j \in hits : i <= j

(* ---------------- persisted configuration ---------------- *)

\* the locker array built by loadLockerConfiguration from the store p
LoadedLockers(p) ==
  IF p.numLockers > 0 /\ p.numLockers <= MAX_LOCKERS
  THEN [i \in 1..p.numLockers |->
          [lockerId |-> p.locker[i - 1], lockerIndex |-> i,
           currentStatus |-> "locked", currentPosition |-> LOCK_POSITION]]
  ELSE << >>

\* variation: a load that never finds a configuration
LoadedConfiguredNever(p) == FALSE

\* isConfigured as computed by loadLockerConfiguration
LoadedConfigured(p) == p.moduleId # "" /\ p.provisioned

\* the parameter check at the head of saveLockerConfiguration
SaveAccepts(moduleId, count) ==
  ~(moduleId = "" \/ count <= 0 \/ count > MAX_LOCKERS)

\* whether saveLockerConfiguration reaches its writes: the Sensor build's
\* version has no parameter check
SaveWrites(moduleId, count) == variant = "Sensor" \/ SaveAccepts(moduleId, count)

\* variation: a store that is written only while it holds no moduleId
SavedPrefsOnce(p, moduleId, lockerIds) ==
  IF p.moduleId # "" THEN p
  ELSE [p EXCEPT !.moduleId = moduleId,
                 !.numLockers = Len(lockerIds),
                 !.locker = [i \in 0..(MAX_LOCKERS - 1) |->
                               IF i < Len(lockerIds) THEN lockerIds[i + 1] ELSE p.locker[i]]]

\* the store after saveLockerConfiguration's writes: moduleId, numLockers, locker0..count-1
SavedPrefs(p, moduleId, lockerIds) ==
  [p EXCEPT !.moduleId = moduleId,
            !.numLockers = Len(lockerIds),
            !.locker = [i \in 0..(MAX_LOCKERS - 1) |->
                          IF i < Len(lockerIds) THEN lockerIds[i + 1] ELSE p.locker[i]]]

\* variation: a reset that clears the module's keys and keeps the WiFi ones
ClearedStoreKeepsWifi(p) ==
  [p EXCEPT !.moduleId = "", !.numLockers = 0]

\* the store after preferences->clear(): no key of the namespace is left,
\* neither the WiFi credentials and server address nor the module's keys
ClearedStore(p) ==
  [moduleId |-> "", numLockers |-> 0, locker |-> [i \in 0..(MAX_LOCKERS - 1) |-> ""],
   provisioned |-> FALSE]

\* the store after saveWiFiConfig: ssid, password, serverIP and serverPort
ProvisionedStore(p) == [p EXCEPT !.provisioned = TRUE]

\* the store at power-on: never configured, or configured by an earlier push
InitialPrefs == { EmptyPrefs, SavedPrefs(EmptyPrefs, "M1", <<"L1", "L2">>) }

(* ---------------- ServerManager: connection ---------------- *)

\* variation: reconnect() without its rate check
ReconnectDueAlways(t, last) == TRUE

\* reconnect()'s rate check; t and last are millis() reads of one boot, t >= last
ReconnectDue(t, last) == ~(t - last < RECONNECT_INTERVAL)

\* variation: a ConnectionOpened handler that does not register
RegisterModuleNever(configured, connected, moduleId) == << >>

\* registerModule(): the envelopes it writes
RegisterModule(configured, connected, moduleId) ==
  IF ~configured \/ ~connected THEN << >>
  ELSE << Envelope("register", moduleId, "", "") >>

\* broadcastAvailable() of the array framing: the envelopes it writes
BroadcastAvailable(connected) ==
  IF ~connected THEN << >> ELSE << Envelope("module_available", "", "", "") >>

\* the ConnectionOpened handler, after isConnected = true: the envelopes it writes
OnOpened(configured, moduleId) ==
  IF configured THEN RegisterModule(configured, TRUE, moduleId)
  ELSE IF framing = "array" THEN BroadcastAvailable(TRUE)
  ELSE << >>

\* reconnect() at time t; ok is whether webSocket->connect() succeeds.
\* connect() raises ConnectionOpened before it returns.
Reconnect(t, last, connected, configured, moduleId, ok) ==
  IF connected
  THEN [called |-> FALSE, last |-> last, connected |-> TRUE, sent |-> << >>]
  ELSE IF ~ReconnectDue(t, last)
  THEN [called |-> FALSE, last |-> last, connected |-> FALSE, sent |-> << >>]
  ELSE [called |-> TRUE, last |-> t, connected |-> ok,
        sent |-> IF ok THEN OnOpened(configured, moduleId) ELSE << >>]

\* what webSocket->connect() may return: the server may be unreachable
\* unless the environment has settled
ConnectOutcomes == IF env = "calm" THEN {TRUE} ELSE BOOLEAN

\* whether WiFi may fail to associate within WIFI_CONNECTION_TIMEOUT attempts
WifiMayFail == env \in {"all-faults", "button"}

(* ---------------- the config button ---------------- *)

\* variation: a second pressed poll requests the reset, however soon it comes
CheckConfigButtonNoHold(low, pressed, start, t) ==
  IF low
  THEN IF ~pressed
       THEN [fire |-> FALSE, pressed |-> TRUE, start |-> t]
       ELSE [fire |-> TRUE, pressed |-> FALSE, start |-> start]
  ELSE [fire |-> FALSE, pressed |-> FALSE, start |-> start]

\* checkConfigButton at millis() t, the pin reading low (pressed) or not:
\* whether it returns true, and its statics afterwards
CheckConfigButton(low, pressed, start, t) ==
  IF low
  THEN IF ~pressed
       THEN [fire |-> FALSE, pressed |-> TRUE, start |-> t]
       ELSE IF t - start > CONFIG_BUTTON_HOLD_TIME
            THEN [fire |-> TRUE, pressed |-> FALSE, start |-> start]
            ELSE [fire |-> FALSE, pressed |-> TRUE, start |-> start]
  ELSE [fire |-> FALSE, pressed |-> FALSE, start |-> start]

\* what digitalRead(CONFIG_BUTTON_PIN) may return: the button is touched only
\* in the runs that follow it
ButtonReadings == IF env = "button" THEN BOOLEAN ELSE {FALSE}

\* the unbroken run of pressed polls after one more poll at millis() t
LowRun(low, since, t) == IF low THEN (IF since = -1 THEN t ELSE since) ELSE -1

\* the top of loop(): checkConfigButton returns false and the iteration goes on
ButtonPolled ==
  \E low \in ButtonReadings :
    LET r == CheckConfigButton(low, buttonPressed, pressStart, now)
    IN  /\ ~r.fire
        /\ buttonPressed' = r.pressed
        /\ pressStart' = r.start
        /\ lowSince' = LowRun(low, lowSince, now)

\* the top of loop(): checkConfigButton returns true. In the runs that do not
\* follow the button the hold is not followed either, and a reset may be
\* requested at any iteration
ButtonFires ==
  /\ env = "button" => CheckConfigButton(TRUE, buttonPressed, pressStart, now).fire
  /\ buttonPressed' = FALSE
  /\ pressStart' = pressStart
  /\ lowSince' = LowRun(TRUE, lowSince, now)

(* ---------------- boot ---------------- *)

\* setup(): HardwareManager::initialize, WiFiManager::initialize, then
\* ServerManager::initialize at millis() = t with the initial reconnect()
Boot(p, t, ok) ==
  LET conf == LoadedConfigured(p)
      mid  == IF conf THEN p.moduleId ELSE ""
      r    == Reconnect(t, 0, FALSE, conf, mid, ok)
  IN  /\ hwConfigured' = conf
      /\ hwModuleId' = mid
      /\ numLockers' = IF conf THEN p.numLockers ELSE 0
      /\ lockers' = IF conf THEN LoadedLockers(p) ELSE << >>
      /\ lastStatusRequest' = 0
      /\ smModuleId' = mid
      /\ smConfigured' = conf
      /\ isConnected' = r.connected
      /\ linkUp' = r.connected
      /\ lastPing' = 0
      /\ lastReconnectAttempt' = r.last
      /\ lastAvailableBroadcast' = 0
      /\ now' = t
      /\ sent' = r.sent
      /\ connectAt' = IF r.called THEN t ELSE -1
      /\ connectCalled' = r.called
      /\ lastBroadcastAt' = IF \E k \in 1..Len(r.sent) : r.sent[k].type = "module_available"
                            THEN t ELSE -1
      /\ broadcastGap' = -1
      /\ lastPingAt' = -1
      /\ pingGap' = -1
      /\ connectGap' = -1
      /\ pc' = "loop"
      /\ cur' = NoCommand
      /\ pending' = [l \in CommandLockerIds |-> 0]
      /\ result' = "none"
      /\ inbox' = << >>
      /\ rx' = << >>
      /\ wifiUp' = TRUE
      /\ serverReady' = TRUE

\* setup() when WiFiManager::initialize returns false after
\* WIFI_CONNECTION_TIMEOUT attempts: initializeManagers creates no ServerManager
BootOffline(p) ==
  LET conf == LoadedConfigured(p)
  IN  /\ hwConfigured' = conf
      /\ hwModuleId' = IF conf THEN p.moduleId ELSE ""
      /\ numLockers' = IF conf THEN p.numLockers ELSE 0
      /\ lockers' = IF conf THEN LoadedLockers(p) ELSE << >>
      /\ lastStatusRequest' = 0
      /\ smModuleId' = ""
      /\ smConfigured' = FALSE
      /\ isConnected' = FALSE
      /\ linkUp' = FALSE
      /\ lastPing' = 0
      /\ lastReconnectAttempt' = 0
      /\ lastAvailableBroadcast' = 0
      /\ now' = WIFI_CONNECTION_TIMEOUT * WIFI_ATTEMPT_DELAY
      /\ sent' = << >>
      /\ connectAt' = -1
      /\ connectCalled' = FALSE
      /\ lastBroadcastAt' = -1
      /\ broadcastGap' = -1
      /\ lastPingAt' = -1
      /\ pingGap' = -1
      /\ connectGap' = -1
      /\ pc' = "loop"
      /\ cur' = NoCommand
      /\ pending' = [l \in CommandLockerIds |-> 0]
      /\ result' = "none"
      /\ inbox' = << >>
      /\ rx' = << >>
      /\ wifiUp' = FALSE
      /\ serverReady' = FALSE

\* setup() with a store that holds no WiFi credentials: WiFiManager::initialize
\* starts the provisioning access point and returns false, no ServerManager is
\* created, and loop() does nothing but handleProvisioning
BootProvisioning(p) ==
  LET conf == LoadedConfigured(p)
  IN  /\ hwConfigured' = conf
      /\ hwModuleId' = IF conf THEN p.moduleId ELSE ""
      /\ numLockers' = IF conf THEN p.numLockers ELSE 0
      /\ lockers' = IF conf THEN LoadedLockers(p) ELSE << >>
      /\ lastStatusRequest' = 0
      /\ smModuleId' = ""
      /\ smConfigured' = FALSE
      /\ isConnected' = FALSE
      /\ linkUp' = FALSE
      /\ lastPing' = 0
      /\ lastReconnectAttempt' = 0
      /\ lastAvailableBroadcast' = 0
      /\ now' = 0
      /\ sent' = << >>
      /\ connectAt' = -1
      /\ connectCalled' = FALSE
      /\ lastBroadcastAt' = -1
      /\ broadcastGap' = -1
      /\ lastPingAt' = -1
      /\ pingGap' = -1
      /\ connectGap' = -1
      /\ pc' = "provisioning"
      /\ cur' = NoCommand
      /\ pending' = [l \in CommandLockerIds |-> 0]
      /\ result' = "none"
      /\ inbox' = << >>
      /\ rx' = << >>
      /\ wifiUp' = FALSE
      /\ serverReady' = FALSE

\* memory, links and logs at power-on
InitMemory ==
  /\ waitingForValidation = FALSE
  /\ nfcScanTime = 0
  /\ lastStatusCheck = 0
  /\ isOccupied = [i \in 1..MAX_LOCKERS |-> FALSE]
  /\ lastStatusUpdate = [i \in 1..MAX_LOCKERS |-> 0]
  /\ irBlocked = [i \in 1..MAX_LOCKERS |-> FALSE]
  /\ hwConfigured = FALSE
  /\ hwModuleId = ""
  /\ numLockers = 0
  /\ lockers = << >>
  /\ lastStatusRequest = 0
  /\ smModuleId = ""
  /\ smConfigured = FALSE
  /\ isConnected = FALSE
  /\ linkUp = FALSE
  /\ lastPing = 0
  /\ lastReconnectAttempt = 0
  /\ lastAvailableBroadcast = 0
  /\ now = 0
  /\ sent = << >>
  /\ connectAt = -1
  /\ connectCalled = FALSE
  /\ lastBroadcastAt = -1
  /\ broadcastGap = -1
  /\ lastPingAt = -1
  /\ pingGap = -1
  /\ connectGap = -1
  /\ pc = "boot"
  /\ cur = NoCommand
  /\ pending = [l \in CommandLockerIds |-> 0]
  /\ result = "none"
  /\ inbox = << >>
  /\ rx = << >>
  /\ tx = << >>
  /\ ardLocked = [i \in 1..3 |-> TRUE]
  /\ esp32Online = FALSE
  /\ ardStatusDue = TRUE
  /\ boots = 0
  /\ wifiUp = FALSE
  /\ serverReady = FALSE
  /\ restartCause = "none"
  /\ preConfig = NoSnapshot
  /\ buttonPressed = FALSE
  /\ pressStart = 0
  /\ lowSince = -1

\* power-on of a build without IR sensors and NFC reader, whatever its framing
InitBase ==
  /\ InitMemory
  /\ variant \in {"Direct", "Relayed"}
  /\ prefs \in InitialPrefs
  /\ cards = 0 /\ flips = 0

\* the runs explored: short ones with MaxMsgs messages, and long idle ones
Runs ==
  \/ horizon = MaxTime /\ budget = MaxMsgs
  \/ horizon = MaxTimeIdle /\ budget = MaxMsgsIdle /\ prefs = EmptyPrefs
     /\ variant = "Direct"

\* power-on of a build that speaks the flat framing, in a place where WiFi
\* associates at boot
Init == InitBase /\ framing = "flat" /\ env = "server-faults" /\ Runs

\* power-on of a configured device with the flat framing, in a place where
\* WiFi may fail as well and with a backend that sends nothing. The build is
\* the Direct one: the session's life cycle does not depend on the serial link.
LiveInit ==
  /\ InitBase
  /\ variant = "Direct"
  /\ framing = "flat"
  /\ env = "all-faults"
  /\ prefs # EmptyPrefs
  /\ horizon = MaxTimeLive /\ budget = 0

\* power-on of any build: the array framing comes with the Direct HardwareManager
FramedInit ==
  /\ InitBase
  /\ framing \in {"flat", "array"}
  /\ framing = "array" => variant = "Direct"
  /\ env = "server-faults"
  /\ Runs

\* setup() after power-on or ESP.restart(): memory is rebuilt from the store;
\* the store and the Arduino keep their state
Setup ==
  /\ pc = "boot"
  /\ boots < MaxBoots
  /\ variant = "Relayed" => Len(tx) + 2 <= MaxTx
  /\ \/ /\ prefs.provisioned
        /\ \E a \in BootAttempts, ok \in ConnectOutcomes : Boot(prefs, a * WIFI_ATTEMPT_DELAY, ok)
     \/ prefs.provisioned /\ WifiMayFail /\ BootOffline(prefs)
     \/ ~prefs.provisioned /\ BootProvisioning(prefs)
  /\ tx' = IF variant = "Relayed" THEN tx \o << CMD_ONLINE, ASCII_ZERO >> ELSE tx
  /\ boots' = boots + 1
  /\ restartCause' = "none"
  /\ preConfig' = NoSnapshot
  /\ waitingForValidation' = FALSE
  /\ nfcScanTime' = 0
  /\ lastStatusCheck' = 0
  /\ isOccupied' = [i \in 1..MAX_LOCKERS |-> FALSE]
  /\ lastStatusUpdate' = [i \in 1..MAX_LOCKERS |-> 0]
  /\ buttonPressed' = FALSE
  /\ pressStart' = 0
  /\ lowSince' = -1
  /\ UNCHANGED << variant, framing, env, prefs, horizon, ardVars, budget, irBlocked, cards, flips >>

\* time passes between two iterations of loop(): TickMs on both boards, which
\* is more than the interval of the Arduino's periodic status
Tick ==
  /\ pc = "loop"
  /\ now + TickMs <= horizon
  /\ now' = now + TickMs
  /\ ardStatusDue' = TRUE
  /\ sent' = << >>
  /\ connectCalled' = FALSE
  /\ UNCHANGED << storeVars, hwIdVars, lockers, lastStatusRequest, smIdVars, isConnected,
                  timerVars, lastReconnectAttempt, pc, cur, pending, result, inbox, linkUp,
                  tx, rx, ardLocked, esp32Online, stationVars, boots, buttonVars, wifiUp, serverReady, budget, connectLog, broadcastLog, restartLog >>

(* ---------------- serial protocol ---------------- *)

\* uint8_t arithmetic on a byte
Byte(n) == n % 256

\* STATUS_CHECK_INTERVAL of config.h
STATUS_CHECK_INTERVAL == 2000

\* processArduinoMessage: the locker array after one frame (command, lockerIndex, response)
ProcessArduinoMessage(ls, n, command, lockerIndex, response) ==
  LET hits == { i \in 1..n : i <= Len(ls) /\ ls[i].lockerIndex = lockerIndex }
  IN  IF hits = {} THEN ls
      ELSE LET i == CHOOSE k \in hits : \A j \in hits : k <= j
           IN  IF response = RESP_LOCKED THEN [ls EXCEPT ![i].currentStatus = "locked"]
               ELSE IF response = RESP_UNLOCKED THEN [ls EXCEPT ![i].currentStatus = "unlocked"]
               ELSE ls

\* the read loop of HardwareManager::loop: bytes are read one at a time, a frame
\* is processed when its third byte is there, a shorter tail is read and dropped
RECURSIVE DrainSerial(_, _, _)
DrainSerial(buf, ls, n) ==
  IF Len(buf) < 3 THEN ls
  ELSE DrainSerial(SubSeq(buf, 4, Len(buf)),
                   ProcessArduinoMessage(ls, n, buf[1], Byte(buf[2] - ASCII_ZERO), buf[3]), n)

\* requestStatusUpdate()'s rate check
StatusRequestDue(t, last) == ~(t - last < STATUS_CHECK_INTERVAL)

\* sendCommandToArduino: the two bytes written
CommandBytes(command, lockerIndex) == << command, Byte(ASCII_ZERO + lockerIndex) >>

\* bytes written to the Arduino by HardwareManager::loop (status request when due)
\* followed by runMainLoop's setOnlineStatus(true)
LoopBytes(t, last) ==
  (IF StatusRequestDue(t, last) THEN CommandBytes(CMD_STATUS, 0) ELSE << >>)
    \o CommandBytes(CMD_ONLINE, 0)

\* Arduino sendResponse: the three bytes written
ResponseBytes(command, lockerIndex, response) ==
  << command, Byte(ASCII_ZERO + lockerIndex), response >>

\* Arduino sendLockerStatus
LockerStatusBytes(locked, lockerIndex) ==
  IF lockerIndex < 1 \/ lockerIndex > 3 THEN << >>
  ELSE ResponseBytes(CMD_STATUS, lockerIndex,
                     IF locked[lockerIndex] THEN RESP_LOCKED ELSE RESP_UNLOCKED)

\* Arduino sendAllStatus
AllStatusBytes(locked) ==
  LockerStatusBytes(locked, 1) \o LockerStatusBytes(locked, 2) \o LockerStatusBytes(locked, 3)

\* variation: an index outside 1..3 falls back to the first locker
ArduinoActuateFallsBack(locked, lockerIndex, toLocked) ==
  IF lockerIndex < 1 \/ lockerIndex > 3 THEN [locked EXCEPT ![1] = toLocked]
  ELSE [locked EXCEPT ![lockerIndex] = toLocked]

\* Arduino lockLocker / unlockLocker: the new isLocked values
ArduinoActuate(locked, lockerIndex, toLocked) ==
  IF lockerIndex < 1 \/ lockerIndex > 3 THEN locked
  ELSE [locked EXCEPT ![lockerIndex] = toLocked]

\* variation: the status frame is written before the Ack frame
ArduinoActuateBytesStatusFirst(command, lockerIndex, toLocked) ==
  IF lockerIndex < 1 \/ lockerIndex > 3
  THEN ResponseBytes(command, lockerIndex, RESP_ERROR)
  ELSE ResponseBytes(CMD_STATUS, lockerIndex,
                     IF toLocked THEN RESP_LOCKED ELSE RESP_UNLOCKED)
         \o ResponseBytes(command, lockerIndex, RESP_ACK)

\* Arduino lockLocker / unlockLocker: the frames written
ArduinoActuateBytes(command, lockerIndex, toLocked) ==
  IF lockerIndex < 1 \/ lockerIndex > 3
  THEN ResponseBytes(command, lockerIndex, RESP_ERROR)
  ELSE ResponseBytes(command, lockerIndex, RESP_ACK)
         \o ResponseBytes(CMD_STATUS, lockerIndex,
                          IF toLocked THEN RESP_LOCKED ELSE RESP_UNLOCKED)

\* Arduino handleESP32Communication: the frames written for one command
ArduinoReply(locked, command, lockerIndex) ==
  IF command = CMD_LOCK THEN ArduinoActuateBytes(CMD_LOCK, lockerIndex, TRUE)
  ELSE IF command = CMD_UNLOCK THEN ArduinoActuateBytes(CMD_UNLOCK, lockerIndex, FALSE)
  ELSE IF command = CMD_STATUS
       THEN IF lockerIndex = 0 THEN AllStatusBytes(locked)
            ELSE LockerStatusBytes(locked, lockerIndex)
  ELSE IF command = CMD_ONLINE \/ command = CMD_OFFLINE
       THEN ResponseBytes(command, 0, RESP_ACK)
  ELSE ResponseBytes(command, lockerIndex, RESP_ERROR)

\* Arduino handleESP32Communication: one two-byte command is read and executed
ArduinoHandle ==
  /\ variant = "Relayed"
  /\ Len(tx) >= 2
  /\ LET command == tx[1]
         lockerIndex == Byte(tx[2] - ASCII_ZERO)
         reply == ArduinoReply(ardLocked, command, lockerIndex)
     IN  /\ Len(rx) + Len(reply) <= MaxRx
         /\ rx' = rx \o reply
         /\ ardLocked' = IF command = CMD_LOCK THEN ArduinoActuate(ardLocked, lockerIndex, TRUE)
                         ELSE IF command = CMD_UNLOCK
                              THEN ArduinoActuate(ardLocked, lockerIndex, FALSE)
                         ELSE ardLocked
         /\ esp32Online' = IF command = CMD_ONLINE THEN TRUE
                           ELSE IF command = CMD_OFFLINE THEN FALSE
                           ELSE esp32Online
  /\ tx' = SubSeq(tx, 3, Len(tx))
  /\ sent' = << >>
  /\ connectCalled' = FALSE
  /\ UNCHANGED << ardStatusDue, stationVars, storeVars, hwIdVars, lockers, lastStatusRequest, smIdVars, isConnected,
                  timerVars, lastReconnectAttempt, now, pc, cur, pending, result, inbox, linkUp,
                  boots, buttonVars, wifiUp, serverReady, budget, connectLog, broadcastLog, restartLog >>

\* variation: the periodic status is sent whether or not the ESP32 is online
ArduinoSendsStatusOffline ==
  /\ variant = "Relayed"
  /\ pc # "boot"
  /\ ardStatusDue
  /\ Len(rx) + Len(AllStatusBytes(ardLocked)) <= MaxRx
  /\ rx' = rx \o AllStatusBytes(ardLocked)
  /\ ardStatusDue' = FALSE
  /\ sent' = << >>
  /\ connectCalled' = FALSE
  /\ UNCHANGED << ardLocked, esp32Online, stationVars, tx, storeVars, hwIdVars, lockers, lastStatusRequest,
                  smIdVars, isConnected, timerVars, lastReconnectAttempt, now, pc, cur, pending,
                  result, inbox, linkUp, boots, buttonVars, wifiUp, serverReady, budget, connectLog,
                  broadcastLog, restartLog >>

\* Arduino loop(): once the ESP32 has said it is online, sendAllStatus every
\* 2000 ms of the Arduino's clock, whether or not a command came in
ArduinoSendsStatus ==
  /\ variant = "Relayed"
  /\ pc # "boot"
  /\ esp32Online
  /\ ardStatusDue
  /\ Len(rx) + Len(AllStatusBytes(ardLocked)) <= MaxRx
  /\ rx' = rx \o AllStatusBytes(ardLocked)
  /\ ardStatusDue' = FALSE
  /\ sent' = << >>
  /\ connectCalled' = FALSE
  /\ UNCHANGED << ardLocked, esp32Online, stationVars, tx, storeVars, hwIdVars, lockers, lastStatusRequest,
                  smIdVars, isConnected, timerVars, lastReconnectAttempt, now, pc, cur, pending,
                  result, inbox, linkUp, boots, buttonVars, wifiUp, serverReady, budget, connectLog,
                  broadcastLog, restartLog >>

(* ---------------- ServerManager: outbound messages ---------------- *)

\* variation: sendStatusUpdate without its test of the session
SendStatusUpdateUngated(configured, connected, moduleId, lockerId, status) ==
  << Envelope("status_update", moduleId, lockerId, status) >>

\* sendStatusUpdate(lockerId, status): the envelopes it writes
SendStatusUpdate(configured, connected, moduleId, lockerId, status) ==
  IF ~configured \/ ~connected THEN << >>
  ELSE << Envelope("status_update", moduleId, lockerId, status) >>

\* sendPing(): the envelopes it writes
SendPing(configured, connected, moduleId) ==
  IF ~configured \/ ~connected THEN << >>
  ELSE << Envelope("ping", moduleId, "", "") >>

\* variation: sendAvailableModuleBroadcast without its test of the connection
SendAvailableModuleBroadcastUngated(configured, connected) ==
  IF configured THEN << >> ELSE << Envelope("module_available", "", "", "") >>

\* sendAvailableModuleBroadcast(): the envelopes it writes
SendAvailableModuleBroadcast(configured, connected) ==
  IF configured \/ ~connected THEN << >>
  ELSE << Envelope("module_available", "", "", "") >>

\* variation: the ping without its interval
PingDueEveryLoop(configured, t, last) == configured

\* loop()'s test for the periodic ping
PingDue(configured, t, last) == configured /\ t - last >= PING_INTERVAL

\* variation: the availability broadcast without its interval
BroadcastDueEveryLoop(configured, t, last) == ~configured

\* loop()'s test for the periodic availability broadcast
BroadcastDue(configured, t, last) ==
  ~configured /\ t - last >= AVAILABLE_BROADCAST_INTERVAL

\* variation: the status text follows the outcome of the hardware call
ReportedStatusByOutcome(kind, success) ==
  IF ~success THEN "error" ELSE IF kind = "unlock" THEN "unlocked" ELSE "locked"

\* the status text handleLockUnlockCommand reports for an action
ReportedStatus(kind, success) == IF kind = "unlock" THEN "unlocked" ELSE "locked"

(* ---------------- control loop ---------------- *)

\* how many of the bytes the Arduino has written are in the UART buffer, one
\* after the other within the 10 ms of delay(10), while the read loop of
\* HardwareManager::loop runs: all of them, unless the runs follow the arrival
\* byte by byte, where the rest arrives after the loop has ended
ArrivedAtLoop(buf) == IF env = "slow-serial" THEN 0..Len(buf) ELSE {Len(buf)}

\* what one iteration of runMainLoop does before ServerManager::loop:
\* the Relayed build drains the serial link, requests status and sends Online
HardwarePrefix ==
  IF variant = "Relayed"
  THEN /\ Len(tx) + Len(LoopBytes(now, lastStatusRequest)) <= MaxTx
       /\ \E k \in ArrivedAtLoop(rx) :
            /\ lockers' = DrainSerial(SubSeq(rx, 1, k), lockers, numLockers)
            /\ rx' = SubSeq(rx, k + 1, Len(rx))
       /\ tx' = tx \o LoopBytes(now, lastStatusRequest)
       /\ lastStatusRequest' = IF StatusRequestDue(now, lastStatusRequest)
                               THEN now ELSE lastStatusRequest
  ELSE UNCHANGED << lockers, rx, tx, lastStatusRequest >>

\* variation: messages are also handed over while a command waits for its acknowledgment
PollDeliversDuringWait == pc \in {"poll", "wait"}

\* whether webSocket->poll() may hand a message or event to its callback here
PollDelivers == pc = "poll"

\* where runMainLoop goes on after ServerManager::loop: the Sensor build's
\* sketch has the NFC scan and the status check still to run
AfterServerLoop == IF variant = "Sensor" THEN "tail" ELSE "loop"

\* loop() while disconnected: ServerManager::loop only calls reconnect()
LoopReconnect ==
  /\ ButtonPolled
  /\ pc = "loop"
  /\ wifiUp /\ serverReady
  /\ ~isConnected
  /\ HardwarePrefix
  /\ \E ok \in ConnectOutcomes :
       LET r == Reconnect(now, lastReconnectAttempt, isConnected, smConfigured, smModuleId, ok)
       IN  /\ isConnected' = r.connected
           /\ linkUp' = r.connected
           /\ lastReconnectAttempt' = r.last
           /\ sent' = r.sent
           /\ connectAt' = IF r.called THEN now ELSE connectAt
           /\ connectGap' = IF r.called /\ connectAt # -1 THEN now - connectAt ELSE connectGap
           /\ connectCalled' = r.called
           /\ LET bc == \E k \in 1..Len(r.sent) : r.sent[k].type = "module_available"
              IN  /\ lastBroadcastAt' = IF bc THEN now ELSE lastBroadcastAt
                  /\ broadcastGap' = IF bc /\ lastBroadcastAt # -1
                                     THEN now - lastBroadcastAt ELSE broadcastGap
           /\ UNCHANGED pingLog
  /\ pc' = AfterServerLoop
  /\ UNCHANGED << storeVars, hwIdVars, smIdVars, timerVars, now, cur, pending, result,
                  inbox, ardVars, stationVars, boots, wifiUp, serverReady, budget, restartLog >>

\* loop() while connected: ServerManager::loop enters webSocket->poll()
LoopPoll ==
  /\ ButtonPolled
  /\ pc = "loop"
  /\ wifiUp /\ serverReady
  /\ isConnected
  /\ HardwarePrefix
  /\ pc' = "poll"
  /\ sent' = << >>
  /\ connectCalled' = FALSE
  /\ UNCHANGED << storeVars, hwIdVars, smIdVars, isConnected, timerVars,
                  lastReconnectAttempt, now, cur, pending, result, inbox, linkUp,
                  ardVars, stationVars, boots, wifiUp, serverReady, budget, connectLog, broadcastLog, restartLog >>

\* poll() finds nothing more to deliver; loop() goes on to the ping and the
\* availability broadcast
PollEnd ==
  /\ pc = "poll"
  /\ inbox = << >>
  /\ LET ping == PingDue(smConfigured, now, lastPing)
         bc   == BroadcastDue(smConfigured, now, lastAvailableBroadcast)
         pingOut == IF ping THEN SendPing(smConfigured, isConnected, smModuleId) ELSE << >>
         bcOut == IF bc THEN SendAvailableModuleBroadcast(smConfigured, isConnected) ELSE << >>
     IN  /\ lastPing' = IF ping THEN now ELSE lastPing
         /\ lastAvailableBroadcast' = IF bc THEN now ELSE lastAvailableBroadcast
         /\ sent' = pingOut \o bcOut
         /\ connectCalled' = FALSE
         /\ lastBroadcastAt' = IF bcOut # << >> THEN now ELSE lastBroadcastAt
         /\ broadcastGap' = IF bcOut # << >> /\ lastBroadcastAt # -1
                            THEN now - lastBroadcastAt ELSE broadcastGap
         /\ lastPingAt' = IF pingOut # << >> THEN now ELSE lastPingAt
         /\ pingGap' = IF pingOut # << >> /\ lastPingAt # -1
                       THEN now - lastPingAt ELSE pingGap
  /\ pc' = AfterServerLoop
  /\ cur' = NoCommand
  /\ result' = "none"
  /\ UNCHANGED << storeVars, hwIdVars, lockers, lastStatusRequest, smIdVars, isConnected,
                  lastReconnectAttempt, now, pending, inbox, linkUp, tx, rx,
                  ardVars, stationVars, boots, buttonVars, wifiUp, serverReady, budget, connectLog, restartLog >>

\* poll() delivers the ConnectionClosed event
DispatchClosed ==
  /\ PollDelivers
  /\ inbox # << >>
  /\ Head(inbox).type = "closed"
  /\ isConnected' = FALSE
  /\ inbox' = Tail(inbox)
  /\ sent' = << >>
  /\ connectCalled' = FALSE
  /\ UNCHANGED << storeVars, hwIdVars, lockers, lastStatusRequest, smIdVars, timerVars,
                  lastReconnectAttempt, now, pc, cur, pending, result, linkUp, tx, rx,
                  ardVars, stationVars, boots, buttonVars, wifiUp, serverReady, budget, connectLog, broadcastLog, restartLog >>

\* handleMessage for "connected", "registered" and "pong": bookkeeping only
DispatchAck ==
  /\ PollDelivers
  /\ framing = "flat"
  /\ inbox # << >>
  /\ Head(inbox).type \in {"connected", "registered", "pong"}
  /\ inbox' = Tail(inbox)
  /\ sent' = << >>
  /\ connectCalled' = FALSE
  /\ UNCHANGED << storeVars, hwIdVars, lockers, lastStatusRequest, smIdVars, isConnected,
                  timerVars, lastReconnectAttempt, now, pc, cur, pending, result, linkUp, tx, rx,
                  ardVars, stationVars, boots, buttonVars, wifiUp, serverReady, budget, connectLog, broadcastLog, restartLog >>

(* ---------------- lock / unlock commands ---------------- *)

IsCommand(m) == m.type \in {"lock", "unlock"}

\* variation: both actions drive the servo to the open position
TargetPositionOpen(kind) == OPEN_POSITION

\* the servo position a Direct lockLocker / unlockLocker writes
TargetPosition(kind) == IF kind = "unlock" THEN OPEN_POSITION ELSE LOCK_POSITION

\* variation: a success records the locked status whatever the action
TargetStatusLocked(kind) == "locked"

\* the status a Relayed lockLocker / unlockLocker records on success
TargetStatus(kind) == IF kind = "unlock" THEN "unlocked" ELSE "locked"

\* the command byte a Relayed lockLocker / unlockLocker sends
CommandCode(kind) == IF kind = "unlock" THEN CMD_UNLOCK ELSE CMD_LOCK

\* variation: the command frame is written a second time
ActuationBytesTwice(kind, lockerIndex) ==
  CommandBytes(CommandCode(kind), lockerIndex) \o CommandBytes(CommandCode(kind), lockerIndex)

\* the bytes a Relayed lockLocker / unlockLocker writes for a locker it has
\* found: one call of sendCommandToArduino, before the wait
ActuationBytes(kind, lockerIndex) == CommandBytes(CommandCode(kind), lockerIndex)

\* variation: a failed wait marks the locker's status as not known
TimedOutStatusUnknown(status) == "unknown"

\* the currentStatus of the locker after lockLocker / unlockLocker returned
\* false from a failed wait: the else branch assigns nothing
TimedOutStatus(status) == status

\* waitForArduinoResponse's test of a frame (cmd, idx, resp) it has read
AckMatches(cmd, idx, resp, expectedResponse, expectedIndex) == resp = expectedResponse

\* handleLockUnlockCommand on the Direct build: the servo is written at once
DispatchCommandDirect ==
  /\ PollDelivers
  /\ framing = "flat"
  /\ variant = "Direct"
  /\ inbox # << >>
  /\ IsCommand(Head(inbox))
  /\ LET m == Head(inbox)
         i == FindLocker(lockers, numLockers, m.lockerId)
     IN  /\ lockers' = IF i = 0 THEN lockers
                       ELSE [lockers EXCEPT ![i].currentPosition = TargetPosition(m.type)]
         /\ now' = IF i = 0 THEN now ELSE now + DIRECT_ACTUATION_DELAY
         /\ result' = IF i = 0 THEN "not-found" ELSE "ok"
         /\ sent' = SendStatusUpdate(smConfigured, isConnected, smModuleId, m.lockerId,
                                     ReportedStatus(m.type, i # 0))
         /\ cur' = [lockerId |-> m.lockerId, kind |-> m.type, slot |-> i,
                    startTime |-> now, late |-> m.late]
  /\ inbox' = Tail(inbox)
  /\ connectCalled' = FALSE
  /\ UNCHANGED << storeVars, hwIdVars, lastStatusRequest, smIdVars, isConnected, timerVars,
                  lastReconnectAttempt, pc, pending, linkUp, tx, rx,
                  ardVars, stationVars, boots, buttonVars, wifiUp, serverReady, budget, connectLog, broadcastLog, restartLog >>

\* handleLockUnlockCommand on the Relayed build, up to the acknowledgment wait:
\* an unknown locker id returns at once, a known one is sent to the Arduino
DispatchCommandRelayed ==
  /\ PollDelivers
  /\ framing = "flat"
  /\ variant = "Relayed"
  /\ inbox # << >>
  /\ IsCommand(Head(inbox))
  /\ LET m == Head(inbox)
         i == FindLocker(lockers, numLockers, m.lockerId)
     IN  /\ cur' = [lockerId |-> m.lockerId, kind |-> m.type, slot |-> i,
                    startTime |-> now, late |-> m.late]
         /\ IF i = 0
            THEN /\ result' = "not-found"
                 /\ sent' = SendStatusUpdate(smConfigured, isConnected, smModuleId,
                                             m.lockerId, ReportedStatus(m.type, FALSE))
                 /\ UNCHANGED << tx, pc, pending >>
            ELSE /\ Len(tx) + Len(ActuationBytes(m.type, lockers[i].lockerIndex)) <= MaxTx
                 /\ tx' = tx \o ActuationBytes(m.type, lockers[i].lockerIndex)
                 /\ pending' = [pending EXCEPT ![m.lockerId] = @ + 1]
                 /\ result' = "waiting"
                 /\ pc' = "wait"
                 /\ sent' = << >>
  /\ connectCalled' = FALSE
  /\ inbox' = Tail(inbox)
  /\ UNCHANGED << storeVars, hwIdVars, lockers, lastStatusRequest, smIdVars, isConnected,
                  timerVars, lastReconnectAttempt, now, linkUp, rx,
                  ardVars, stationVars, boots, buttonVars, wifiUp, serverReady, budget, connectLog, broadcastLog, restartLog >>

\* waitForArduinoResponse reads one frame; a frame that passes its test ends the
\* wait with true, and the caller records the new status and reports it
WaitRead ==
  /\ pc = "wait"
  /\ Len(rx) >= 3
  /\ LET cmd == rx[1]
         idx == Byte(rx[2] - ASCII_ZERO)
         resp == rx[3]
     IN  IF AckMatches(cmd, idx, resp, RESP_ACK, lockers[cur.slot].lockerIndex)
         THEN /\ lockers' = [ProcessArduinoMessage(lockers, numLockers, cmd, idx, resp)
                               EXCEPT ![cur.slot].currentStatus = TargetStatus(cur.kind)]
              /\ result' = "ok"
              /\ pending' = [pending EXCEPT ![cur.lockerId] = @ - 1]
              /\ sent' = SendStatusUpdate(smConfigured, isConnected, smModuleId,
                                          cur.lockerId, ReportedStatus(cur.kind, TRUE))
              /\ pc' = "poll"
         ELSE /\ sent' = << >>
              /\ UNCHANGED << lockers, result, pending, pc >>
  /\ rx' = SubSeq(rx, 4, Len(rx))
  /\ connectCalled' = FALSE
  /\ UNCHANGED << storeVars, hwIdVars, lastStatusRequest, smIdVars, isConnected, timerVars,
                  lastReconnectAttempt, now, cur, inbox, linkUp, tx,
                  ardVars, stationVars, boots, buttonVars, wifiUp, serverReady, budget, connectLog, broadcastLog, restartLog >>

\* waitForArduinoResponse runs out of time: it returns false, and the caller
\* goes on to its status report
WaitTimeout ==
  /\ pc = "wait"
  /\ Len(rx) < 3
  /\ now' = cur.startTime + SERIAL_TIMEOUT
  /\ result' = "timeout"
  /\ pending' = [pending EXCEPT ![cur.lockerId] = @ - 1]
  /\ sent' = SendStatusUpdate(smConfigured, isConnected, smModuleId,
                              cur.lockerId, ReportedStatus(cur.kind, FALSE))
  /\ lockers' = [lockers EXCEPT ![cur.slot].currentStatus = TimedOutStatus(@)]
  /\ pc' = "poll"
  /\ connectCalled' = FALSE
  /\ UNCHANGED << storeVars, hwIdVars, lastStatusRequest, smIdVars, isConnected,
                  timerVars, lastReconnectAttempt, cur, inbox, linkUp, tx, rx,
                  ardVars, stationVars, boots, buttonVars, wifiUp, serverReady, budget, connectLog, broadcastLog, restartLog >>

(* ---------------- frames without a handler ---------------- *)

\* what handleMessage of the flat framing can do with a frame of kind k.
\* part_002 reads doc["type"] into a const char * and passes it to strcmp
\* unchecked: for an object without "type" that is strcmp(nullptr, ...), which
\* may read through the null pointer (the chip panics and restarts) or not.
\* server_manager.cpp reads the type into a String, which is merely no match.
FlatOutcomes(k) ==
  IF k = "untyped" /\ variant = "Relayed" THEN {"dropped", "panic"} ELSE {"dropped"}

\* handleMessage of the flat framing for a frame that does not parse, has no
\* type, or has a type outside its else-if chain
DispatchUnhandled ==
  /\ PollDelivers
  /\ framing = "flat"
  /\ inbox # << >>
  /\ Head(inbox).type \in UnhandledKinds
  /\ \E o \in FlatOutcomes(Head(inbox).type) :
       IF o = "panic"
       THEN /\ pc' = "boot"
            /\ restartCause' = "panic"
            /\ preConfig' = NoSnapshot
       ELSE UNCHANGED << pc, restartLog >>
  /\ inbox' = Tail(inbox)
  /\ sent' = << >>
  /\ connectCalled' = FALSE
  /\ UNCHANGED << storeVars, hwIdVars, lockers, lastStatusRequest, smIdVars, isConnected,
                  timerVars, lastReconnectAttempt, now, cur, pending, result, linkUp, tx, rx,
                  ardVars, stationVars, boots, buttonVars, wifiUp, serverReady, budget, connectLog, broadcastLog >>

(* ---------------- array framing ---------------- *)

\* whether handleMessage of the array framing has a branch that acts on m:
\* only the "unlock" event reaches the hardware, and handleUnlockEvent acts
\* only on a payload whose action is "unlock"
EventActs(m) == m.type = "unlock" /\ m.action = "unlock"

\* delay() of the unlockLocker the array framing is built with
EventActuationDelay ==
  IF variant = "Sensor" THEN SENSOR_ACTUATION_DELAY ELSE DIRECT_ACTUATION_DELAY

\* handleMessage of the array framing for every frame but module-configured
\* and nfc-validation-result:
\* "unlock" goes to handleUnlockEvent, which calls unlockLocker and sends
\* nothing; "registered" is logged; all other frames match no branch
DispatchEvent ==
  /\ PollDelivers
  /\ framing = "array"
  /\ inbox # << >>
  /\ Head(inbox).type \notin {"closed", "module_configured", "nfc_validation_result"}
  /\ LET m == Head(inbox)
         i == FindLocker(lockers, numLockers, m.lockerId)
     IN  IF EventActs(m)
         THEN /\ lockers' = IF i = 0 THEN lockers
                            ELSE [lockers EXCEPT ![i].currentPosition = TargetPosition("unlock")]
              /\ now' = IF i = 0 THEN now ELSE now + EventActuationDelay
              /\ result' = IF i = 0 THEN "not-found" ELSE "ok"
              /\ cur' = [lockerId |-> m.lockerId, kind |-> m.type, slot |-> i,
                         startTime |-> now, late |-> m.late]
         ELSE UNCHANGED << lockers, now, result, cur >>
  /\ inbox' = Tail(inbox)
  /\ sent' = << >>
  /\ connectCalled' = FALSE
  /\ UNCHANGED << storeVars, hwIdVars, lastStatusRequest, smIdVars, isConnected, timerVars,
                  lastReconnectAttempt, pc, pending, linkUp, tx, rx,
                  ardVars, stationVars, boots, buttonVars, wifiUp, serverReady, budget, connectLog, broadcastLog, restartLog >>

(* ---------------- configuration push ---------------- *)

\* the read-back check of the Direct build's saveLockerConfiguration
ReadBackOk(p, moduleId, count) == p.moduleId = moduleId /\ p.numLockers = count

\* variation: saveLockerConfiguration without its in-memory update
SaveAppliesNever(p, moduleId, lockerIds) == FALSE

\* whether saveLockerConfiguration ends with the in-memory update
SaveApplies(p, moduleId, lockerIds) ==
  /\ SaveAccepts(moduleId, Len(lockerIds))
  /\ variant = "Direct" => ReadBackOk(SavedPrefs(p, moduleId, lockerIds), moduleId, Len(lockerIds))

\* whether a Preferences put may fail (putString / putInt return 0 and leave
\* the key as it was, for instance when the NVS partition is full)
StoreMayFail == env = "store-faults"

\* the stores saveLockerConfiguration's writes can leave behind: the puts of
\* moduleId and numLockers each take effect or not (the read-back tests these
\* two keys only)
WrittenStores(p, moduleId, lockerIds) ==
  IF StoreMayFail
  THEN { [SavedPrefs(p, moduleId, lockerIds)
            EXCEPT !.moduleId = IF a THEN moduleId ELSE p.moduleId,
                   !.numLockers = IF b THEN Len(lockerIds) ELSE p.numLockers] : a, b \in BOOLEAN }
  ELSE { SavedPrefs(p, moduleId, lockerIds) }

\* whether saveLockerConfiguration ends with the in-memory update when its
\* writes have left the store q
SaveVerifies(p, q, moduleId, lockerIds) ==
  IF q = SavedPrefs(p, moduleId, lockerIds)
  THEN SaveApplies(p, moduleId, lockerIds)
  ELSE /\ SaveAccepts(moduleId, Len(lockerIds))
       /\ variant = "Direct" => ReadBackOk(q, moduleId, Len(lockerIds))

\* variation: only a push addressed to this device's MAC address is handed over
ConfigurationDispatchedForIdentity(m, moduleId, mac) == m.targetIdentity = mac

\* whether handleMessage hands a module_configured push to handleModuleConfiguration
ConfigurationDispatched(m, moduleId, mac) == TRUE

\* handleModuleConfiguration: saveLockerConfiguration, then delay(2000) and ESP.restart()
DispatchConfiguration ==
  /\ PollDelivers
  /\ inbox # << >>
  /\ Head(inbox).type = "module_configured"
  /\ LET m == Head(inbox)
     IN  /\ preConfig' = [taken |-> TRUE, push |-> m, prefs |-> prefs,
                          hwModuleId |-> hwModuleId, hwConfigured |-> hwConfigured,
                          smModuleId |-> smModuleId, smConfigured |-> smConfigured,
                          numLockers |-> numLockers, lockers |-> lockers]
         /\ IF ConfigurationDispatched(m, smModuleId, MacAddress)
            THEN \E q \in WrittenStores(prefs, m.moduleId, m.lockerIds) :
                 LET applied == variant # "Sensor" /\ SaveVerifies(prefs, q, m.moduleId, m.lockerIds)
                 IN  /\ prefs' = IF SaveWrites(m.moduleId, Len(m.lockerIds)) THEN q ELSE prefs
                     /\ hwModuleId' = IF applied THEN m.moduleId ELSE hwModuleId
                     /\ hwConfigured' = (applied \/ hwConfigured)
                     /\ now' = now + CONFIG_RESTART_DELAY
                     /\ pc' = "boot"
                     /\ restartCause' = IF applied \/ variant = "Sensor" THEN "configuration-applied"
                                        ELSE "configuration-rejected"
            ELSE UNCHANGED << prefs, hwModuleId, hwConfigured, now, pc, restartCause >>
  /\ inbox' = Tail(inbox)
  /\ sent' = << >>
  /\ connectCalled' = FALSE
  /\ UNCHANGED << variant, framing, env, horizon, numLockers, lockers, lastStatusRequest, smIdVars, isConnected,
                  timerVars, lastReconnectAttempt, cur, pending, result, linkUp, tx, rx,
                  ardVars, stationVars, boots, buttonVars, wifiUp, serverReady, budget, connectLog, broadcastLog >>

(* ---------------- environment: backend and transport ---------------- *)

\* an inbound frame by its logical content; action is the "action" member of
\* the payload ("" when the payload has none)
Inbound(type, lockerId, push, late) ==
  [type |-> type, lockerId |-> lockerId, moduleId |-> push.moduleId,
   lockerIds |-> push.lockerIds, targetIdentity |-> push.targetIdentity, late |-> late,
   action |-> "", valid |-> FALSE]

NoPush == [moduleId |-> "", lockerIds |-> NoLockerIds, targetIdentity |-> ""]

\* the messages the backend sends to a Sensor build in the runs explored:
\* validation results, granted or denied, and unlock events
StationMessages ==
  { [Inbound("nfc_validation_result", l, NoPush, FALSE) EXCEPT !.valid = v] :
      l \in NfcLockerIds, v \in BOOLEAN }
    \cup { [Inbound("unlock", l, NoPush, FALSE) EXCEPT !.action = "unlock"] :
             l \in CommandLockerIds }

\* the messages the backend may send
ServerMessages ==
  IF variant = "Sensor"
  THEN StationMessages
         \cup ( IF env = "configuring"
                THEN { Inbound("module_configured", "", p, FALSE) : p \in Pushes }
                ELSE {} )
  ELSE
  { Inbound(k, l, NoPush, pending[l] > 0) : k \in {"lock", "unlock"}, l \in CommandLockerIds }
    \cup { Inbound("module_configured", "", p, FALSE) : p \in Pushes }
    \cup { Inbound("pong", "", NoPush, FALSE) }
    \cup { Inbound(k, "", NoPush, FALSE) : k \in UnhandledKinds }
    \cup ( IF framing = "array"
           THEN { [Inbound("unlock", l, NoPush, FALSE) EXCEPT !.action = "unlock"] :
                    l \in CommandLockerIds }
           ELSE {} )

\* a message of the backend reaches the device's receive buffer (in the runs
\* of the Sensor build: while poll() runs, the only place where the buffer is read)
ServerSends ==
  /\ linkUp
  /\ variant = "Sensor" => pc = "poll"
  /\ budget > 0
  /\ Len(inbox) < MaxInbox
  /\ \E m \in ServerMessages : inbox' = Append(inbox, m)
  /\ budget' = budget - 1
  /\ sent' = << >>
  /\ connectCalled' = FALSE
  /\ UNCHANGED << storeVars, hwIdVars, lockers, lastStatusRequest, smIdVars, isConnected,
                  timerVars, lastReconnectAttempt, now, pc, cur, pending, result, linkUp,
                  tx, rx, ardVars, stationVars, boots, buttonVars, wifiUp, serverReady, connectLog, broadcastLog, restartLog >>

\* the transport connection is lost; poll() will raise ConnectionClosed
ConnectionCloses ==
  /\ linkUp
  /\ env # "calm"
  /\ linkUp' = FALSE
  /\ inbox' = Append(inbox, Inbound("closed", "", NoPush,
                                     \E l \in CommandLockerIds : pending[l] > 0))
  /\ sent' = << >>
  /\ connectCalled' = FALSE
  /\ UNCHANGED << storeVars, hwIdVars, lockers, lastStatusRequest, smIdVars, isConnected,
                  timerVars, lastReconnectAttempt, now, pc, cur, pending, result,
                  tx, rx, ardVars, stationVars, boots, buttonVars, wifiUp, serverReady, budget, connectLog, broadcastLog, restartLog >>

(* ---------------- WiFi ---------------- *)

\* loop() while WiFi is not associated: handleWiFiDisconnection calls
\* connectToWiFi, which blocks for up to WIFI_CONNECTION_TIMEOUT attempts, and
\* waits WIFI_RETRY_DELAY after a failure. No ServerManager is created here.
WifiReconnect ==
  /\ ButtonPolled
  /\ pc = "loop"
  /\ ~wifiUp
  /\ \/ /\ \E a \in BootAttempts : now' = now + a * WIFI_ATTEMPT_DELAY
        /\ wifiUp' = TRUE
     \/ /\ WifiMayFail
        /\ now' = now + WIFI_CONNECTION_TIMEOUT * WIFI_ATTEMPT_DELAY + WIFI_RETRY_DELAY
        /\ now' <= horizon
        /\ wifiUp' = FALSE
  /\ sent' = << >>
  /\ connectCalled' = FALSE
  /\ UNCHANGED << storeVars, hwIdVars, lockers, lastStatusRequest, smIdVars, isConnected,
                  timerVars, lastReconnectAttempt, pc, cur, pending, result, inbox, linkUp,
                  tx, rx, ardVars, stationVars, boots, serverReady, budget, connectLog, broadcastLog,
                  restartLog >>

\* loop() with WiFi associated and serverManager == nullptr: runMainLoop runs
\* the HardwareManager part only
LoopOffline ==
  /\ ButtonPolled
  /\ pc = "loop"
  /\ wifiUp /\ ~serverReady
  /\ HardwarePrefix
  /\ sent' = << >>
  /\ connectCalled' = FALSE
  /\ UNCHANGED << storeVars, hwIdVars, smIdVars, isConnected, timerVars,
                  lastReconnectAttempt, now, pc, cur, pending, result, inbox, linkUp,
                  ardVars, stationVars, boots, wifiUp, serverReady, budget, connectLog, broadcastLog,
                  restartLog >>

\* from here on WiFi and the server stay available
EnvironmentSettles ==
  /\ env = "all-faults"
  /\ env' = "calm"
  /\ sent' = << >>
  /\ connectCalled' = FALSE
  /\ UNCHANGED << variant, framing, prefs, horizon, hwIdVars, lockers, lastStatusRequest,
                  smIdVars, isConnected, timerVars, lastReconnectAttempt, now, pc, cur,
                  pending, result, inbox, linkUp, tx, rx, ardVars, stationVars, boots, buttonVars, wifiUp, serverReady,
                  budget, connectLog, broadcastLog, restartLog >>

(* ---------------- factory reset and provisioning ---------------- *)

\* loop() when checkConfigButton() reports the button held for more than
\* CONFIG_BUTTON_HOLD_TIME: performFactoryReset calls WiFiManager::factoryReset,
\* which clears the store and restarts. The button is tested first in every
\* iteration, in provisioning mode too.
FactoryReset ==
  /\ ButtonFires
  /\ pc \in {"loop", "provisioning"}
  /\ boots < MaxBoots
  /\ prefs' = ClearedStore(prefs)
  /\ pc' = "boot"
  /\ restartCause' = "factory-reset"
  /\ preConfig' = NoSnapshot
  /\ sent' = << >>
  /\ connectCalled' = FALSE
  /\ UNCHANGED << variant, framing, env, horizon, hwIdVars, lockers, lastStatusRequest,
                  smIdVars, isConnected, timerVars, lastReconnectAttempt, now, cur,
                  pending, result, inbox, linkUp, tx, rx, ardVars, stationVars, boots, wifiUp, serverReady,
                  budget, connectLog, broadcastLog >>

\* provisioning mode: the /configure form is posted; saveWiFiConfig writes the
\* WiFi keys as posted (a form left empty stores empty keys, and the next boot
\* is unprovisioned again) and the device restarts
ProvisioningConfigure ==
  /\ ButtonPolled
  /\ pc = "provisioning"
  /\ \E filled \in BOOLEAN : prefs' = IF filled THEN ProvisionedStore(prefs) ELSE prefs
  /\ pc' = "boot"
  /\ restartCause' = "provisioned"
  /\ preConfig' = NoSnapshot
  /\ sent' = << >>
  /\ connectCalled' = FALSE
  /\ UNCHANGED << variant, framing, env, horizon, hwIdVars, lockers, lastStatusRequest,
                  smIdVars, isConnected, timerVars, lastReconnectAttempt, now, cur,
                  pending, result, inbox, linkUp, tx, rx, ardVars, stationVars, boots, wifiUp, serverReady,
                  budget, connectLog, broadcastLog >>

(* ---------------- specification ---------------- *)

Next ==
  \/ Setup
  \/ Tick
  \/ LoopReconnect
  \/ LoopPoll
  \/ PollEnd
  \/ DispatchClosed
  \/ DispatchAck
  \/ DispatchCommandDirect
  \/ DispatchCommandRelayed
  \/ WaitRead
  \/ WaitTimeout
  \/ DispatchConfiguration
  \/ DispatchUnhandled
  \/ ServerSends
  \/ ConnectionCloses
  \/ ArduinoHandle

Spec == Init /\ [][Next]_vars

\* the steps of the device's own control flow when no message arrives:
\* setup() and the iterations of loop()
DeviceStep ==
  \/ Setup
  \/ LoopReconnect
  \/ LoopPoll
  \/ PollEnd
  \/ DispatchClosed
  \/ WifiReconnect
  \/ LoopOffline

\* the session's life cycle where WiFi may fail too, until the environment settles
LiveNext ==
  \/ DeviceStep
  \/ Tick
  \/ ConnectionCloses
  \/ EnvironmentSettles

\* the control loop keeps taking steps and millis() keeps advancing between
\* iterations; nothing is assumed of the backend, the transport or WiFi
LiveSpec ==
  /\ LiveInit
  /\ [][LiveNext]_vars
  /\ WF_vars(DeviceStep)
  /\ WF_vars(Tick)

\* power-on of a configured device with the Relayed HardwareManager
SerialInit ==
  /\ InitBase
  /\ variant = "Relayed"
  /\ framing = "flat"
  /\ env = "server-faults"
  /\ prefs # EmptyPrefs
  /\ horizon = MaxTime /\ budget = MaxMsgs

\* the Relayed build with both halves of the Arduino's loop(): the command
\* handler and the periodic status
SerialNext ==
  \/ Setup
  \/ Tick
  \/ LoopReconnect
  \/ LoopPoll
  \/ PollEnd
  \/ DispatchClosed
  \/ DispatchAck
  \/ DispatchCommandRelayed
  \/ WaitRead
  \/ WaitTimeout
  \/ DispatchConfiguration
  \/ DispatchUnhandled
  \/ ServerSends
  \/ ConnectionCloses
  \/ ArduinoHandle
  \/ ArduinoSendsStatus

SerialSpec == SerialInit /\ [][SerialNext]_vars

\* power-on of a configured device with the Relayed HardwareManager, on a
\* serial link whose bytes are followed one by one
ByteInit ==
  /\ InitBase
  /\ variant = "Relayed"
  /\ framing = "flat"
  /\ env = "slow-serial"
  /\ prefs # EmptyPrefs
  /\ horizon = MaxTime /\ budget = MaxMsgsBytes

ByteSpec == ByteInit /\ [][SerialNext]_vars

\* power-on of a device whose config button may be held
ResetInit ==
  /\ InitBase
  /\ framing = "flat"
  /\ env = "server-faults"
  /\ horizon = MaxTime /\ budget = MaxMsgs

\* the control loop with the config button and the provisioning form
ResetNext ==
  \/ Next
  \/ FactoryReset
  \/ ProvisioningConfigure

ResetSpec == ResetInit /\ [][ResetNext]_vars

\* power-on of either flat build with a store whose writes may fail
StoreInit ==
  /\ InitBase
  /\ framing = "flat"
  /\ env = "store-faults"
  /\ horizon = MaxTime /\ budget = MaxMsgs

StoreSpec == StoreInit /\ [][Next]_vars

\* all builds: the flat ones and the one with the array framing
FramedNext ==
  \/ Next
  \/ DispatchEvent

FramedSpec == FramedInit /\ [][FramedNext]_vars

(* ---------------- Sensor build: NFC and IR sensors ---------------- *)

\* variation: a toggle that always opens
ToggledPositionOpen(position) == OPEN_POSITION

\* toggleLocker: the position it writes for a locker found at position
ToggledPosition(position) ==
  IF position = LOCK_POSITION THEN OPEN_POSITION ELSE LOCK_POSITION

\* handleNFCValidationResult's guard
NfcResultActs(waiting) == waiting

\* handleNFCValidationResult: a result is dropped unless a scan awaits
\* validation; a granted one toggles the named locker; setNFCValidationResult
\* ends the wait, shows the outcome and delays
DispatchNfcResult ==
  /\ PollDelivers
  /\ framing = "array"
  /\ inbox # << >>
  /\ Head(inbox).type = "nfc_validation_result"
  /\ LET m == Head(inbox)
         i == FindLocker(lockers, numLockers, m.lockerId)
     IN  IF NfcResultActs(waitingForValidation)
         THEN /\ lockers' = IF m.valid /\ i # 0
                            THEN [lockers EXCEPT ![i].currentPosition = ToggledPosition(@)]
                            ELSE lockers
              /\ waitingForValidation' = FALSE
              /\ now' = IF waitingForValidation THEN now + NFC_NOTICE_DELAY ELSE now
              /\ cur' = [lockerId |-> m.lockerId, kind |-> "toggle",
                         slot |-> IF m.valid THEN i ELSE 0, startTime |-> now, late |-> FALSE]
              /\ result' = IF ~m.valid THEN "denied" ELSE IF i = 0 THEN "not-found" ELSE "ok"
         ELSE UNCHANGED << lockers, waitingForValidation, now, cur, result >>
  /\ inbox' = Tail(inbox)
  /\ sent' = << >>
  /\ connectCalled' = FALSE
  /\ UNCHANGED << storeVars, hwIdVars, lastStatusRequest, smIdVars, isConnected, timerVars,
                  lastReconnectAttempt, pc, pending, linkUp, tx, rx, ardVars,
                  nfcScanTime, lastStatusCheck, isOccupied, lastStatusUpdate, irBlocked,
                  cards, flips, boots, buttonVars, wifiUp, serverReady, budget, connectLog,
                  broadcastLog, restartLog >>

\* scanNFC at millis() t: whether a card was read, the validation wait
\* afterwards, and millis() when it returns. A card starts a wait; without a
\* card the read times out, and only then is a wait older than NFC_TIMEOUT ended.
ScanNFC(card, configured, waiting, scanTime, t) ==
  IF ~configured
  THEN [read |-> FALSE, waiting |-> waiting, scanTime |-> scanTime, t |-> t]
  ELSE IF card
  THEN [read |-> TRUE, waiting |-> TRUE, scanTime |-> t, t |-> t]
  ELSE LET t1 == t + NFC_READ_TIMEOUT
       IN  IF waiting /\ t1 - scanTime > NFC_TIMEOUT
           THEN [read |-> FALSE, waiting |-> FALSE, scanTime |-> scanTime,
                 t |-> t1 + NFC_NOTICE_DELAY]
           ELSE [read |-> FALSE, waiting |-> waiting, scanTime |-> scanTime, t |-> t1]

\* validateNFC(): the envelopes it writes
ValidateNFC(configured, connected, moduleId) ==
  IF ~configured \/ ~connected THEN << >>
  ELSE << Envelope("validate_nfc", moduleId, "", "") >>

\* sendLockerStatus(): the envelopes it writes
SendLockerStatus(configured, connected, moduleId, lockerId, occupied) ==
  IF ~configured \/ ~connected THEN << >>
  ELSE << Envelope("locker_status", moduleId, lockerId,
                   IF occupied THEN "occupied" ELSE "empty") >>

\* handleLockerStatusCheck's rate check
StatusCheckDue(t, last) == t - last >= STATUS_CHECK_INTERVAL

\* sendLockerStatusUpdates' test of one locker
StatusUpdateDue(t, last) == t - last > STATUS_CHECK_INTERVAL

\* checkLockerStatuses: isOccupied of every slot after the sensors are read
CheckLockerStatuses(configured, n, occupied, ir) ==
  IF ~configured THEN occupied
  ELSE [i \in 1..MAX_LOCKERS |-> IF i <= n THEN ir[i] ELSE occupied[i]]

\* the rest of runMainLoop after ServerManager::loop, and the end of loop():
\* handleNFCOperations, handleLockerStatusCheck, delay(100)
LoopTail ==
  /\ variant = "Sensor"
  /\ pc = "tail"
  /\ \E card \in BOOLEAN :
       /\ card => cards > 0 /\ hwConfigured
       /\ LET scan == ScanNFC(card, hwConfigured, waitingForValidation, nfcScanTime, now)
              validated == scan.read /\ serverReady /\ hwConfigured
              t1 == IF scan.read /\ ~validated THEN scan.t + NFC_NOTICE_DELAY ELSE scan.t
              due == StatusCheckDue(t1, lastStatusCheck)
              occ == IF due THEN CheckLockerStatuses(hwConfigured, numLockers, isOccupied, irBlocked)
                     ELSE isOccupied
              report == due /\ occ # isOccupied /\ serverReady
              stale == IF report
                       THEN { i \in 1..numLockers : StatusUpdateDue(t1, lastStatusUpdate[i]) }
                       ELSE {}
              updates[i \in 0..numLockers] ==
                IF i = 0 THEN << >>
                ELSE updates[i - 1] \o
                     ( IF i \in stale
                       THEN SendLockerStatus(smConfigured, isConnected, smModuleId,
                                             lockers[i].lockerId, occ[i])
                       ELSE << >> )
          IN  /\ waitingForValidation' = scan.waiting
              /\ nfcScanTime' = scan.scanTime
              /\ cards' = IF card THEN cards - 1 ELSE cards
              /\ isOccupied' = occ
              /\ lastStatusUpdate' = [i \in 1..MAX_LOCKERS |->
                                        IF i \in stale THEN t1 ELSE lastStatusUpdate[i]]
              /\ lastStatusCheck' = IF due THEN t1 ELSE lastStatusCheck
              /\ sent' = ( IF validated
                           THEN ValidateNFC(smConfigured, isConnected, smModuleId)
                           ELSE << >> ) \o updates[numLockers]
              /\ now' = t1 + LOOP_DELAY
  /\ now' <= horizon
  /\ pc' = "loop"
  /\ connectCalled' = FALSE
  /\ UNCHANGED << storeVars, hwIdVars, lockers, lastStatusRequest, smIdVars, isConnected,
                  timerVars, lastReconnectAttempt, cur, pending, result, inbox, linkUp,
                  tx, rx, ardVars, irBlocked, flips, boots, buttonVars, wifiUp, serverReady, budget,
                  connectLog, broadcastLog, restartLog >>

\* something is put into or taken out of a locker: the IR reading of one slot
\* changes. The reading matters only where checkLockerStatuses samples it.
SensorChanges ==
  /\ variant = "Sensor"
  /\ pc = "tail"
  /\ flips > 0
  /\ \E i \in 1..numLockers : irBlocked' = [irBlocked EXCEPT ![i] = ~@]
  /\ flips' = flips - 1
  /\ sent' = << >>
  /\ connectCalled' = FALSE
  /\ UNCHANGED << storeVars, hwIdVars, lockers, lastStatusRequest, smIdVars, isConnected,
                  timerVars, lastReconnectAttempt, now, pc, cur, pending, result, inbox,
                  linkUp, tx, rx, ardVars, waitingForValidation, nfcScanTime,
                  lastStatusCheck, isOccupied, lastStatusUpdate, cards, boots, buttonVars, wifiUp,
                  serverReady, budget, connectLog, broadcastLog, restartLog >>

\* power-on of a configured Sensor build, which speaks the array framing, with
\* a backend that is reachable and keeps the connection
StationInit ==
  /\ InitMemory
  /\ variant = "Sensor"
  /\ framing = "array"
  /\ env = "calm"
  /\ prefs \in InitialPrefs \ {EmptyPrefs}
  /\ horizon = MaxTimeStation /\ budget = MaxMsgs
  /\ \/ cards = MaxCards /\ flips = 0
     \/ cards = MaxCardsSensing /\ flips = MaxFlips

\* the Sensor build's control loop and its environment
StationNext ==
  \/ Setup
  \/ LoopReconnect
  \/ LoopPoll
  \/ PollEnd
  \/ DispatchEvent
  \/ DispatchNfcResult
  \/ LoopTail
  \/ SensorChanges
  \/ ServerSends

StationSpec == StationInit /\ [][StationNext]_vars

\* power-on of the Sensor build, never configured or configured by an earlier
\* push, with a backend that sends configuration pushes
ConfigInit ==
  /\ InitMemory
  /\ variant = "Sensor"
  /\ framing = "array"
  /\ env = "configuring"
  /\ prefs \in InitialPrefs
  /\ horizon = MaxTimeStation /\ budget = MaxMsgsConfig
  /\ cards = 0 /\ flips = 0

\* the Sensor build's control loop with the configuration pushes
ConfigNext ==
  \/ Setup
  \/ LoopReconnect
  \/ LoopPoll
  \/ PollEnd
  \/ DispatchEvent
  \/ DispatchNfcResult
  \/ DispatchConfiguration
  \/ LoopTail
  \/ ServerSends

ConfigSpec == ConfigInit /\ [][ConfigNext]_vars

TypeOK ==
  /\ variant \in {"Direct", "Relayed", "Sensor"}
  /\ pc \in {"boot", "loop", "poll", "wait", "provisioning", "tail"}
  /\ isConnected \in BOOLEAN
  /\ now \in Nat
  /\ Len(inbox) <= MaxInbox + 1
  /\ Len(tx) <= MaxTx
  /\ Len(rx) <= MaxRx

(* ---------------- properties: commands in flight ---------------- *)

\* C1 (as the specification words it): a locker has at most one pending command,
\* and a command that arrives for a locker whose command is still pending is
\* rejected: it is neither kept in a queue nor forwarded to the actuator.
C1_SecondCommandRejected ==
  /\ \A l \in CommandLockerIds : pending[l] <= 1
  /\ \A i \in 1..Len(inbox) : ~(IsCommand(inbox[i]) /\ inbox[i].late)
  /\ ~(cur.late /\ result = "waiting")

\* C1 (as the code behaves): at most one command is in flight at any moment,
\* because the handler blocks until the acknowledgment or the timeout; while it
\* blocks nothing is dispatched, arrivals only join the receive buffer; and a
\* command that arrived during the wait is forwarded to the secondary
\* controller when its turn comes.
C1_OneCommandInFlight ==
  [][ /\ \A l \in CommandLockerIds : pending'[l] <= 1
      /\ \A l, k \in CommandLockerIds : pending'[l] = 1 /\ pending'[k] = 1 => l = k
      /\ \A l \in CommandLockerIds :
           pending'[l] = 1 => pc' = "wait" /\ cur'.lockerId = l /\ result' = "waiting"
      /\ pc' = "wait" => pending'[cur'.lockerId] = 1
      /\ pc = "wait" =>
           /\ Len(inbox') >= Len(inbox)
           /\ SubSeq(inbox', 1, Len(inbox)) = inbox
      /\ ( /\ variant = "Relayed" /\ pc = "poll" /\ inbox # << >>
           /\ IsCommand(Head(inbox)) /\ Head(inbox).late
           /\ FindLocker(lockers, numLockers, Head(inbox).lockerId) # 0
           /\ inbox' = Tail(inbox) )
         => /\ pc' = "wait"
            /\ tx' = tx \o CommandBytes(CommandCode(Head(inbox).type),
                       lockers[FindLocker(lockers, numLockers, Head(inbox).lockerId)].lockerIndex)
    ]_vars

\* a command that arrived while the same locker's command was pending is now
\* itself waiting for its acknowledgment
C1_Witness == pc = "wait" /\ cur.late /\ result = "waiting" /\ pending[cur.lockerId] = 1

(* ---------------- properties: configuration push ---------------- *)

\* C2: a push with an empty locker list, more than MAX_LOCKERS ids or an empty
\* moduleId changes nothing: neither while it is handled nor by what its handling
\* leads to do the persisted keys, the in-memory moduleId and isConfigured or the
\* locker registry differ from what they were before the push.
C2_RejectedPushChangesNothing ==
  [][ /\ ( /\ pc = "poll" /\ inbox # << >>
           /\ Head(inbox).type = "module_configured"
           /\ ~SaveAccepts(Head(inbox).moduleId, Len(Head(inbox).lockerIds))
           /\ inbox' = Tail(inbox) )
         => /\ prefs' = prefs
            /\ hwModuleId' = hwModuleId /\ hwConfigured' = hwConfigured
            /\ numLockers' = numLockers /\ lockers' = lockers
      /\ ( /\ pc = "boot" /\ pc' = "loop" /\ preConfig.taken
           /\ ~SaveAccepts(preConfig.push.moduleId, Len(preConfig.push.lockerIds)) )
         => /\ prefs' = preConfig.prefs
            /\ hwModuleId' = preConfig.hwModuleId /\ hwConfigured' = preConfig.hwConfigured
            /\ numLockers' = preConfig.numLockers /\ lockers' = preConfig.lockers
    ]_vars

C4_HandshakeSingleShot ==
  [][ ( /\ pc = "poll" /\ inbox # << >>
        /\ Head(inbox).type = "module_configured"
        /\ hwModuleId # ""
        /\ inbox' = Tail(inbox) )
      => /\ prefs' = prefs
         /\ hwModuleId' = hwModuleId
    ]_vars

\* C4 (as the code behaves): the handshake is not single-shot. A push with a
\* non-empty moduleId and 1..MAX_LOCKERS ids that arrives when moduleId is
\* already non-empty is applied again: the persisted moduleId, count and ids and
\* the in-memory moduleId take the pushed values, the device restarts, and after
\* the restart the registry holds the pushed ids.
C4_PushAppliedAgain ==
  [][ /\ ( /\ pc = "poll" /\ inbox # << >>
           /\ Head(inbox).type = "module_configured"
           /\ hwModuleId # ""
           /\ Head(inbox).moduleId # ""
           /\ Len(Head(inbox).lockerIds) \in 1..MAX_LOCKERS
           /\ inbox' = Tail(inbox) )
         => LET m == Head(inbox)
            IN  /\ prefs'.moduleId = m.moduleId
                /\ prefs'.numLockers = Len(m.lockerIds)
                /\ \A i \in 1..Len(m.lockerIds) : prefs'.locker[i - 1] = m.lockerIds[i]
                /\ hwModuleId' = m.moduleId
                /\ pc' = "boot"
      /\ ( /\ pc = "boot" /\ pc' = "loop" /\ preConfig.taken
           /\ preConfig.hwModuleId # ""
           /\ preConfig.push.moduleId # ""
           /\ Len(preConfig.push.lockerIds) \in 1..MAX_LOCKERS )
         => LET m == preConfig.push
            IN  /\ hwModuleId' = m.moduleId /\ smModuleId' = m.moduleId
                /\ Len(lockers') = Len(m.lockerIds)
                /\ \A i \in 1..Len(m.lockerIds) : lockers'[i].lockerId = m.lockerIds[i]
    ]_vars

\* a device configured as one module has persisted a push naming another
\* module and is about to restart
C4_Witness ==
  /\ pc = "boot" /\ preConfig.taken
  /\ preConfig.hwModuleId # ""
  /\ preConfig.prefs.moduleId # ""
  /\ prefs.moduleId = preConfig.push.moduleId
  /\ prefs.moduleId # preConfig.prefs.moduleId

(* ---------------- properties: connection ---------------- *)

\* C5: within one boot, two consecutive calls of webSocket->connect() are at
\* least 5000 ms of millis() time apart.
C5_ReconnectFloor == connectGap = -1 \/ connectGap >= RECONNECT_INTERVAL

\* a connect() has just been called again after an earlier one of the same boot
C5_Witness ==
  /\ connectCalled /\ connectAt = now
  /\ connectGap >= RECONNECT_INTERVAL
  /\ lastReconnectAttempt = now


(* ---------------- properties: acknowledgment wait ---------------- *)

\* C6: when a Relayed unlock gets no acknowledgment within the timeout, a status
\* of "error" (and not "unlocked") is reported for that locker; and a second
\* unlock dispatched for the same locker afterwards is forwarded to the
\* secondary controller.
C6_TimeoutReportsError ==
  [][ /\ ( pc = "wait" /\ cur.kind = "unlock" /\ result' = "timeout" )
         => /\ \E i \in 1..Len(sent') :
                 /\ sent'[i].type = "status_update"
                 /\ sent'[i].lockerId = cur.lockerId
                 /\ sent'[i].status = "error"
            /\ \A i \in 1..Len(sent') : sent'[i].status # "unlocked"
      /\ ( /\ variant = "Relayed" /\ pc = "poll" /\ result = "timeout"
           /\ inbox # << >> /\ Head(inbox).type = "unlock"
           /\ Head(inbox).lockerId = cur.lockerId
           /\ inbox' = Tail(inbox) )
         => pc' = "wait" /\ pending'[cur.lockerId] = 1
    ]_vars

\* C7: a Relayed command completes successfully only on a frame that is an
\* acknowledgment and carries the index of the locker the command was sent for.
C7_AckMustMatchIndex ==
  [][ ( pc = "wait" /\ result' = "ok" )
      => /\ Len(rx) >= 3
         /\ rx[3] = RESP_ACK
         /\ Byte(rx[2] - ASCII_ZERO) = lockers[cur.slot].lockerIndex
    ]_vars

(* ---------------- properties: direct actuation ---------------- *)

\* C8: on the Direct build, a lock command for a configured locker leaves that
\* locker at LOCK_POSITION, and a status_update with status "locked" for it is
\* emitted within the same handling.
C8_DirectLockReportsLocked ==
  [][ ( /\ variant = "Direct" /\ pc = "poll" /\ inbox # << >>
        /\ Head(inbox).type = "lock"
        /\ FindLocker(lockers, numLockers, Head(inbox).lockerId) # 0
        /\ inbox' = Tail(inbox) )
      => LET m == Head(inbox)
             i == FindLocker(lockers, numLockers, m.lockerId)
         IN  /\ lockers'[i].lockerId = m.lockerId
             /\ lockers'[i].currentPosition = LOCK_POSITION
             /\ \E k \in 1..Len(sent') :
                  /\ sent'[k].type = "status_update"
                  /\ sent'[k].lockerId = m.lockerId
                  /\ sent'[k].status = "locked"
             /\ \A j \in 1..Len(lockers') : j # i => lockers'[j] = lockers[j]
    ]_vars

\* a Direct lock command has just been handled: the locker is at LOCK_POSITION
\* and the "locked" status is in the output
C8_Witness ==
  /\ variant = "Direct" /\ pc = "poll"
  /\ cur.kind = "lock" /\ cur.slot # 0 /\ result = "ok"
  /\ lockers[cur.slot].currentPosition = LOCK_POSITION
  /\ \E k \in 1..Len(sent) :
       sent[k].type = "status_update" /\ sent[k].lockerId = cur.lockerId
         /\ sent[k].status = "locked"

(* ---------------- properties: availability broadcast ---------------- *)

C10_SuccessEmittedBeforeRestart ==
  [][ ( /\ pc = "poll" /\ inbox # << >>
        /\ Head(inbox).type = "module_configured"
        /\ Head(inbox).targetIdentity = MacAddress
        /\ hwModuleId = ""
        /\ SaveAccepts(Head(inbox).moduleId, Len(Head(inbox).lockerIds))
        /\ inbox' = Tail(inbox) )
      => LET m == Head(inbox)
         IN  /\ prefs'.moduleId = m.moduleId
             /\ hwModuleId' = m.moduleId /\ smModuleId' = m.moduleId
             /\ Len(lockers') = Len(m.lockerIds)
             /\ \E i \in 1..Len(sent') : sent'[i].type = "configuration_success"
             /\ pc' = "boot"
    ]_vars

\* C10 (as the code behaves): for a push with a non-empty moduleId and
\* 1..MAX_LOCKERS ids, the handler persists moduleId, count and ids, sets
\* HardwareManager's moduleId and isConfigured, emits nothing, and after a delay
\* of 2000 ms restarts; the locker registry and ServerManager's moduleId and
\* isConfigured keep their old values until the restart rebuilds them from the
\* store.
C10_PersistThenRestart ==
  [][ /\ ( /\ pc = "poll" /\ inbox # << >>
           /\ Head(inbox).type = "module_configured"
           /\ Head(inbox).moduleId # ""
           /\ Len(Head(inbox).lockerIds) \in 1..MAX_LOCKERS
           /\ inbox' = Tail(inbox) )
         => LET m == Head(inbox)
            IN  /\ prefs'.moduleId = m.moduleId
                /\ prefs'.numLockers = Len(m.lockerIds)
                /\ \A i \in 1..Len(m.lockerIds) : prefs'.locker[i - 1] = m.lockerIds[i]
                /\ hwModuleId' = m.moduleId /\ hwConfigured'
                /\ sent' = << >>
                /\ lockers' = lockers /\ numLockers' = numLockers
                /\ smModuleId' = smModuleId /\ smConfigured' = smConfigured
                /\ now' = now + CONFIG_RESTART_DELAY
                /\ pc' = "boot"
      /\ ( /\ pc = "boot" /\ pc' = "loop" /\ preConfig.taken
           /\ preConfig.push.moduleId # ""
           /\ Len(preConfig.push.lockerIds) \in 1..MAX_LOCKERS )
         => LET m == preConfig.push
            IN  /\ smModuleId' = m.moduleId /\ smConfigured'
                /\ hwModuleId' = m.moduleId /\ hwConfigured'
                /\ numLockers' = Len(m.lockerIds)
                /\ Len(lockers') = Len(m.lockerIds)
                /\ \A i \in 1..Len(m.lockerIds) : lockers'[i].lockerId = m.lockerIds[i]
    ]_vars

\* an unconfigured device has handled a valid push addressed to it: the store
\* and HardwareManager hold the pushed moduleId, ServerManager and the registry
\* do not yet, and the restart is next
C10_Witness ==
  /\ pc = "boot" /\ preConfig.taken
  /\ preConfig.push.targetIdentity = MacAddress
  /\ preConfig.hwModuleId = ""
  /\ prefs.moduleId = preConfig.push.moduleId
  /\ hwModuleId = preConfig.push.moduleId /\ hwConfigured
  /\ smModuleId = "" /\ ~smConfigured /\ lockers = << >>
  /\ sent = << >>

(* ---------------- properties: transport loss ---------------- *)

\* C11 (as the specification words it): when the transport closes while a
\* command is pending, the command is cleared and reported as failed: the
\* handling that ends it emits a status_update with status "error" for its
\* locker.
C11_CloseFailsPending ==
  [][ ( /\ pc = "wait" /\ pc' = "poll"
        /\ \E i \in 1..Len(inbox) : inbox[i].type = "closed" /\ inbox[i].late )
      => /\ pending'[cur.lockerId] = 0
         /\ \E k \in 1..Len(sent') :
              /\ sent'[k].type = "status_update"
              /\ sent'[k].lockerId = cur.lockerId
              /\ sent'[k].status = "error"
    ]_vars

\* C11 (as the code behaves): a close of the transport is not noticed while a
\* command waits for its acknowledgment. The command runs on to its
\* acknowledgment or its timeout and is then cleared; on an acknowledgment the
\* locker's recorded status still changes; the status passed to
\* sendStatusUpdate is the one of the action ("unlocked" / "locked"), never
\* "error"; the later delivery of the closed event emits nothing and only
\* clears isConnected; and a reconnect finds no pending command and writes no
\* Lock / Unlock frame.
C11_CloseUnnoticedWhilePending ==
  [][ /\ pc = "wait" => isConnected' = isConnected
      /\ ( /\ pc = "wait" /\ pc' = "poll"
           /\ \E i \in 1..Len(inbox) : inbox[i].type = "closed" /\ inbox[i].late )
         => /\ pending'[cur.lockerId] = 0
            /\ isConnected'
            /\ \A k \in 1..Len(sent') :
                 /\ sent'[k].type = "status_update"
                 /\ sent'[k].lockerId = cur.lockerId
                 /\ sent'[k].status = (IF cur.kind = "unlock" THEN "unlocked" ELSE "locked")
            /\ result' = "ok" =>
                 lockers'[cur.slot].currentStatus
                   = (IF cur.kind = "unlock" THEN "unlocked" ELSE "locked")
            /\ result' = "timeout" => lockers' = lockers
      /\ ( /\ pc = "poll" /\ inbox # << >> /\ Head(inbox).type = "closed"
           /\ inbox' = Tail(inbox) )
         => /\ sent' = << >>
            /\ ~isConnected'
            /\ pending' = pending
            /\ lockers' = lockers
      /\ ( ~isConnected /\ isConnected' )
         => /\ \A l \in CommandLockerIds : pending'[l] = 0
            /\ \A i \in 1..Len(tx') :
                 ( i > Len(tx) /\ i % 2 = 1 ) => tx'[i] \notin {CMD_LOCK, CMD_UNLOCK}
    ]_vars

\* a command has just ended after the transport closed during its wait: the
\* closed event is still undelivered and a status report has been written
C11_Witness ==
  /\ variant = "Relayed" /\ pc = "poll"
  /\ result \in {"ok", "timeout"} /\ cur.slot # 0
  /\ ~linkUp /\ isConnected
  /\ \E i \in 1..Len(inbox) : inbox[i].type = "closed" /\ inbox[i].late
  /\ sent # << >>

(* ---------------- properties: registration ---------------- *)

\* C15: every opening of the connection with a non-empty moduleId writes a
\* register envelope carrying that moduleId, inside the ConnectionOpened
\* handler and therefore ahead of any ping or status_update of that
\* connection; with an empty moduleId no register is written; and register is
\* written nowhere else.
C15_RegisterOnOpen ==
  [][ /\ ( connectCalled' /\ isConnected' )
         => IF smModuleId' # ""
            THEN sent' = << Envelope("register", smModuleId', "", "") >>
            ELSE \A k \in 1..Len(sent') : sent'[k].type # "register"
      /\ ( \E k \in 1..Len(sent') : sent'[k].type = "register" )
         => connectCalled' /\ isConnected'
    ]_vars

\* a connection of a configured device has just opened and its register is out
C15_Witness ==
  /\ connectCalled /\ isConnected /\ smModuleId = "M1"
  /\ sent = << Envelope("register", "M1", "", "") >>
  /\ pc = "loop"

(* ---------------- properties: unknown locker ---------------- *)

C19_TimeoutMakesUnknown ==
  [][ ( pc = "wait" /\ result' = "timeout" )
      => lockers'[cur.slot].currentStatus \notin {"locked", "unlocked"}
    ]_vars

\* C19 (as the code behaves): a recorded status is always "locked" or
\* "unlocked". A timeout leaves the status of the locker exactly as it was
\* before the command, and a recorded status changes afterwards only when
\* frames are read from the serial link (a status frame, or the acknowledgment
\* of a later command) or when the device boots.
C19_TimeoutKeepsStatus ==
  [][ /\ \A i \in 1..Len(lockers') : lockers'[i].currentStatus \in {"locked", "unlocked"}
      /\ ( pc = "wait" /\ result' = "timeout" )
         => lockers' = lockers
      /\ ( /\ pc # "boot" /\ Len(lockers') = Len(lockers)
           /\ \E i \in 1..Len(lockers) :
                lockers'[i].currentStatus # lockers[i].currentStatus )
         => /\ variant = "Relayed"
            /\ Len(rx) >= 3
            /\ Len(rx') < Len(rx)
    ]_vars

\* a command has just timed out and the locker still carries a definite status
C19_Witness ==
  /\ variant = "Relayed" /\ pc = "poll" /\ result = "timeout"
  /\ cur.slot # 0
  /\ lockers[cur.slot].currentStatus \in {"locked", "unlocked"}

(* ---------------- properties: no retry ---------------- *)

\* C20: the relay layer never retries. A step writes at most one Lock / Unlock
\* frame to the serial link; it does so only while it takes one lock / unlock
\* message out of the receive buffer, and the frame is the one for that
\* message; nothing is written while the acknowledgment is awaited or when the
\* wait times out; and the secondary controller moves a lock only by consuming
\* one such frame. One backend command therefore actuates at most once.
C20_NoRetry ==
  [][ LET added == IF Len(tx') > Len(tx) THEN SubSeq(tx', Len(tx) + 1, Len(tx')) ELSE << >>
          frames == { i \in 1..Len(added) :
                        i % 2 = 1 /\ added[i] \in {CMD_LOCK, CMD_UNLOCK} }
      IN  /\ Cardinality(frames) <= 1
          /\ frames # {}
             => /\ pc = "poll" /\ inbox # << >> /\ IsCommand(Head(inbox))
                /\ inbox' = Tail(inbox)
                /\ pc' = "wait"
                /\ added = << CommandCode(Head(inbox).type),
                              ASCII_ZERO + lockers[cur'.slot].lockerIndex >>
                /\ lockers[cur'.slot].lockerId = Head(inbox).lockerId
          /\ pc = "wait" => added = << >>
          /\ ardLocked' # ardLocked
             => /\ Len(tx) >= 2 /\ tx[1] \in {CMD_LOCK, CMD_UNLOCK}
                /\ tx' = SubSeq(tx, 3, Len(tx))
    ]_vars

\* a command has timed out and its single frame is still the only Lock / Unlock
\* frame on the serial link
C20_Witness ==
  /\ variant = "Relayed" /\ pc = "poll" /\ result = "timeout"
  /\ Cardinality({ i \in 1..Len(tx) : i % 2 = 1 /\ tx[i] \in {CMD_LOCK, CMD_UNLOCK} }) = 1
  /\ \E i \in 1..Len(tx) : i % 2 = 1 /\ tx[i] = CommandCode(cur.kind)

(* ---------------- properties: frames without a handler ---------------- *)

\* C16: an inbound frame that does not parse, that parses but has no type, or
\* that carries an unknown kind is dropped: the control loop keeps running
\* (no restart), and the session state, the locker registry, the persisted
\* configuration and the messages sent are unchanged by it.
C16_UnhandledFrameDropped ==
  [][ ( /\ pc = "poll" /\ inbox # << >> /\ Head(inbox).type \in UnhandledKinds
        /\ inbox' = Tail(inbox) )
      => /\ pc' = "poll"
         /\ restartCause' = "none"
         /\ isConnected' = isConnected
         /\ smModuleId' = smModuleId /\ smConfigured' = smConfigured
         /\ lockers' = lockers /\ numLockers' = numLockers
         /\ prefs' = prefs
         /\ sent' = << >>
    ]_vars

(* ---------------- properties: the two framings ---------------- *)

\* C17: the two wire framings are equivalent. A lock / unlock message has the
\* effect of the flat handler whichever framing delivers it: the locker named
\* in it is driven to the position of the action, and a status_update with the
\* status of the action goes upstream.
C17_FramingsEquivalent ==
  [][ ( /\ variant = "Direct" /\ pc = "poll" /\ inbox # << >>
        /\ IsCommand(Head(inbox)) /\ inbox' = Tail(inbox) )
      => LET m == Head(inbox)
             i == FindLocker(lockers, numLockers, m.lockerId)
         IN  /\ lockers' = IF i = 0 THEN lockers
                           ELSE [lockers EXCEPT ![i].currentPosition = TargetPosition(m.type)]
             /\ sent' = SendStatusUpdate(smConfigured, isConnected, smModuleId,
                                         m.lockerId, ReportedStatus(m.type, i # 0))
    ]_vars

(* ---------------- properties: gated sends ---------------- *)

\* C13: in both framings a ping, register or status_update is written only by
\* a session that is connected and has a non-empty moduleId, and it carries
\* that moduleId.
C13_SendsGated ==
  \A k \in 1..Len(sent) :
    sent[k].type \in {"ping", "register", "status_update"}
      => /\ isConnected
         /\ smConfigured
         /\ smModuleId # ""
         /\ sent[k].moduleId = smModuleId

\* a connected device without a moduleId has handled a lock / unlock command
\* and has written nothing
C13_Witness ==
  /\ pc = "poll" /\ isConnected /\ smModuleId = ""
  /\ cur.kind \in {"lock", "unlock"} /\ result = "not-found"
  /\ sent = << >> /\ inbox = << >> /\ linkUp

(* ---------------- properties: disconnected ---------------- *)

\* C14: the delivery of a closed event leaves the session disconnected
\* whatever it was before; and a disconnected session takes no message out of
\* the receive buffer and writes no ping, broadcast or status_update: the only
\* thing it writes is the register of a connect() that succeeds, and a loop
\* iteration that starts disconnected leaves the ping and broadcast timers
\* alone.
C14_DisconnectedOnlyReconnects ==
  [][ /\ ( /\ pc = "poll" /\ inbox # << >> /\ Head(inbox).type = "closed"
           /\ inbox' = Tail(inbox) )
         => ~isConnected'
      /\ ( ~isConnected /\ pc # "boot" )
         => /\ inbox' = inbox
            /\ \A k \in 1..Len(sent') :
                 sent'[k].type = "register" /\ connectCalled' /\ isConnected'
            /\ lockers' = lockers \/ variant = "Relayed"
            /\ prefs' = prefs
      /\ ( ~isConnected /\ pc = "loop" )
         => /\ lastPing' = lastPing
            /\ lastAvailableBroadcast' = lastAvailableBroadcast
            /\ pc' = "loop"
            /\ isConnected' => connectCalled'
    ]_vars

\* the closed event has just been delivered to an unconfigured device whose
\* availability broadcast is due: the rest of this loop iteration sends nothing
C14_Witness ==
  /\ pc = "poll" /\ inbox = << >>
  /\ ~isConnected /\ ~linkUp /\ connectAt # -1
  /\ ~smConfigured
  /\ now - lastAvailableBroadcast >= AVAILABLE_BROADCAST_INTERVAL

(* ---------------- properties: session recovery ---------------- *)

\* C12: the session has no terminal state. Whenever a configured device is at
\* the top of loop() with WiFi and the server available from then on (time
\* for one more reconnect interval left in the run), the session is eventually
\* connected again, whatever failed before: WiFi at boot, a connect, or a
\* connection that closed.
C12_SessionRecovers ==
  ( /\ env = "calm"
    /\ hwConfigured
    /\ pc = "loop"
    /\ inbox = << >>
    /\ now + TickMs <= horizon )
  ~> ( isConnected /\ linkUp )

(* ---------------- properties: status frames ---------------- *)

\* C21: every locked / unlocked status frame of the secondary controller for a
\* configured locker is applied to the registry, whether the main-loop poll
\* reads it or the acknowledgment wait does: after a step of the running
\* device that takes frames off the serial input, each configured locker has
\* the status of the last status frame for it among the frames taken.
C21_StatusFramesApplied ==
  [][ ( pc \in {"loop", "wait"} /\ Len(rx') < Len(rx) )
      => LET taken == SubSeq(rx, 1, Len(rx) - Len(rx'))
             StatusFrames(idx) ==
               { k \in 1..(Len(taken) \div 3) :
                   /\ Byte(taken[3 * k - 1] - ASCII_ZERO) = idx
                   /\ taken[3 * k] \in {RESP_LOCKED, RESP_UNLOCKED} }
         IN  \A i \in 1..numLockers :
               LET K == StatusFrames(lockers[i].lockerIndex)
               IN  K # {} =>
                     LET last == CHOOSE k \in K : \A j \in K : j <= k
                     IN  lockers'[i].currentStatus =
                           IF taken[3 * last] = RESP_LOCKED THEN "locked" ELSE "unlocked"
    ]_vars

(* ---------------- properties: restarts ---------------- *)

\* C26: the device restarts only right after a configuration push that was
\* accepted, persisted and verified, or after a factory reset: every step
\* that ends the run of the control loop is one of these two, and the
\* handling of a push that was rejected or whose apply failed leaves the
\* control loop running.
C26_RestartOnlyAfterApply ==
  [][ /\ ( pc # "boot" /\ pc' = "boot" )
         => restartCause' \in {"configuration-applied", "factory-reset"}
      /\ ( /\ pc = "poll" /\ inbox # << >>
           /\ Head(inbox).type = "module_configured"
           /\ inbox' = Tail(inbox)
           /\ ~SaveApplies(prefs, Head(inbox).moduleId, Head(inbox).lockerIds) )
         => pc' = "poll"
    ]_vars

(* ---------------- properties: factory reset ---------------- *)

\* C28: a factory reset clears every persisted key (WiFi credentials and
\* server address, moduleId, locker count, locker ids) and restarts; the
\* setup() that follows finds the device unprovisioned and unconfigured, with
\* an empty registry and no session, and enters provisioning mode with the
\* store still empty.
C28_FactoryResetClearsAll ==
  [][ /\ ( restartCause # "factory-reset" /\ restartCause' = "factory-reset" )
         => /\ pc' = "boot"
            /\ ~prefs'.provisioned
            /\ prefs'.moduleId = "" /\ prefs'.numLockers = 0
            /\ \A i \in 0..(MAX_LOCKERS - 1) : prefs'.locker[i] = ""
      /\ ( pc = "boot" /\ restartCause = "factory-reset" /\ pc' # "boot" )
         => /\ pc' = "provisioning"
            /\ ~hwConfigured' /\ hwModuleId' = "" /\ numLockers' = 0 /\ lockers' = << >>
            /\ ~serverReady' /\ ~isConnected' /\ sent' = << >>
            /\ prefs' = prefs /\ ~prefs'.provisioned /\ prefs'.moduleId = ""
    ]_vars

\* a device that was configured with lockers is in provisioning mode after the
\* restart of a factory reset, with nothing left in the store
C28_Witness ==
  /\ pc = "provisioning" /\ boots = 2 /\ restartCause = "none"
  /\ ~prefs.provisioned /\ prefs.moduleId = "" /\ prefs.numLockers = 0
  /\ ~hwConfigured /\ lockers = << >>

(* ---------------- properties: module identity ---------------- *)

\* C27 (as the specification words it): once moduleId is non-empty, persisted
\* or in memory, no message, disconnect or restart clears or replaces it; only a
\* factory reset (and the boot that follows it) empties it.
C27_ModuleIdNeverReplaced ==
  [][ /\ ( prefs.moduleId # "" /\ restartCause' # "factory-reset" )
         => prefs'.moduleId = prefs.moduleId
      /\ ( hwModuleId # "" /\ restartCause # "factory-reset" )
         => hwModuleId' = hwModuleId
    ]_vars

\* C27 (as the code behaves): the persisted moduleId changes only in a factory
\* reset, which empties it, and in a configuration push that
\* saveLockerConfiguration accepts (non-empty moduleId, 1..MAX_LOCKERS ids),
\* which replaces it with the pushed, non-empty moduleId, whether or not a
\* moduleId was set before. The moduleId in memory changes only in such a push
\* and in setup(), which loads the persisted one. No other message, no
\* disconnect and no restart clears or changes either.
C27_ModuleIdSetByPushOrReset ==
  [][ LET PushStep == /\ pc = "poll" /\ inbox # << >>
                      /\ Head(inbox).type = "module_configured"
                      /\ inbox' = Tail(inbox)
                      /\ SaveApplies(prefs, Head(inbox).moduleId, Head(inbox).lockerIds)
          ResetStep == /\ pc \in {"loop", "provisioning"} /\ pc' = "boot"
                       /\ restartCause' = "factory-reset"
      IN  /\ prefs'.moduleId # prefs.moduleId
             => \/ ResetStep /\ prefs'.moduleId = ""
                \/ PushStep /\ prefs'.moduleId # ""
          /\ PushStep => /\ prefs'.moduleId = Head(inbox).moduleId
                         /\ hwModuleId' = Head(inbox).moduleId
          /\ hwModuleId' # hwModuleId
             => \/ pc = "boot" /\ pc' # "boot" /\ hwModuleId' = prefs.moduleId
                \/ PushStep
          /\ ( prefs.moduleId # "" /\ ~ResetStep ) => prefs'.moduleId # ""
    ]_vars

\* a device that held one moduleId has persisted the moduleId of a later push
\* and holds it in memory, about to restart
C27_Witness ==
  /\ pc = "boot" /\ restartCause = "configuration-applied"
  /\ preConfig.taken /\ preConfig.prefs.moduleId # ""
  /\ prefs.moduleId \notin {"", preConfig.prefs.moduleId}
  /\ hwModuleId = prefs.moduleId

(* ---------------- properties: callbacks and the registry ---------------- *)

\* C29 (as the specification words it): the locker registry is changed only by
\* the main loop itself (setup and the loop's own hardware step); a step in
\* which the transport hands a message or event to its callback, and the
\* acknowledgment wait that runs inside that callback, changes no locker and
\* writes nothing to the actuator.
C29_CallbacksOnlyEnqueue ==
  [][ /\ lockers' # lockers => pc \in {"boot", "loop"}
      /\ ( pc = "poll" /\ inbox # << >> /\ inbox' = Tail(inbox) )
         => lockers' = lockers /\ tx' = tx
    ]_vars

\* C29 (as the code behaves): the registry is changed only on the control
\* loop's own thread, but by the callbacks themselves. It changes in setup(), in
\* the loop's hardware step, in the step in which poll() hands a message to
\* its callback, and at the end of the acknowledgment wait inside that
\* callback; nothing is queued for a later iteration. A lock or unlock for a
\* known locker drives the servo (Direct) or writes the command frame to the
\* Arduino (Relayed) within the callback, and an acknowledged Relayed command
\* records its status before the callback returns. The arrival of a message,
\* the loss of the connection and the Arduino's own steps change no locker.
C29_CallbacksActDirectly ==
  [][ /\ lockers' # lockers
         => \/ pc = "boot" /\ pc' # "boot"
            \/ pc = "loop" /\ variant = "Relayed" /\ rx # << >> /\ rx' = << >>
            \/ pc = "poll" /\ inbox # << >> /\ inbox' = Tail(inbox)
            \/ pc = "wait" /\ pc' = "poll"
      /\ ( \/ Len(inbox') > Len(inbox)
           \/ linkUp /\ ~linkUp' /\ pc # "boot"
           \/ ardLocked' # ardLocked )
         => lockers' = lockers
      /\ ( /\ pc = "poll" /\ inbox # << >> /\ inbox' = Tail(inbox)
           /\ framing = "flat" /\ Head(inbox).type \in {"lock", "unlock"}
           /\ \E i \in 1..numLockers : lockers[i].lockerId = Head(inbox).lockerId )
         => LET m == Head(inbox)
                i == CHOOSE j \in 1..numLockers : lockers[j].lockerId = m.lockerId
            IN  IF variant = "Direct"
                THEN lockers'[i].currentPosition =
                       IF m.type = "unlock" THEN OPEN_POSITION ELSE LOCK_POSITION
                ELSE /\ pc' = "wait"
                     /\ Len(tx') = Len(tx) + 2
                     /\ tx'[Len(tx') - 1] = (IF m.type = "unlock" THEN CMD_UNLOCK ELSE CMD_LOCK)
      /\ ( pc = "wait" /\ pc' = "poll" /\ result' = "ok" )
         => lockers'[cur.slot].currentStatus =
              IF cur.kind = "unlock" THEN "unlocked" ELSE "locked"
    ]_vars

\* a Relayed callback has recorded the new status of its locker at the end of
\* its acknowledgment wait, before control is back in loop()
C29_Witness ==
  /\ variant = "Relayed" /\ pc = "poll" /\ result = "ok" /\ cur.slot # 0
  /\ cur.kind = "unlock" /\ lockers[cur.slot].currentStatus = "unlocked"

(* ---------------- properties: read-back verification ---------------- *)

\* C25: when the read-back of moduleId or of the locker count after the writes
\* of a configuration push does not match what was written (Direct build), the
\* apply has failed: the configuration in memory stays as it was, nothing is
\* sent upstream, and the device does not restart.
C25_ReadBackFailureIsNoApply ==
  [][ ( /\ pc = "poll" /\ inbox # << >> /\ inbox' = Tail(inbox)
        /\ Head(inbox).type = "module_configured"
        /\ variant = "Direct"
        /\ SaveAccepts(Head(inbox).moduleId, Len(Head(inbox).lockerIds))
        /\ ~ReadBackOk(prefs', Head(inbox).moduleId, Len(Head(inbox).lockerIds)) )
      => /\ hwConfigured' = hwConfigured /\ hwModuleId' = hwModuleId
         /\ sent' = << >>
         /\ pc' = "poll" /\ restartCause' = restartCause
    ]_vars

(* ---------------- properties: toggle ---------------- *)

C23_PeriodicReport ==
  [][ ( /\ pc = "tail" /\ lastStatusCheck' # lastStatusCheck
        /\ hwConfigured /\ smConfigured /\ isConnected /\ serverReady )
      => \A i \in 1..numLockers :
           lastStatusCheck' - lastStatusUpdate[i] > STATUS_CHECK_INTERVAL
             => \E k \in 1..Len(sent') :
                  /\ sent'[k].type = "locker_status"
                  /\ sent'[k].lockerId = lockers[i].lockerId
                  /\ sent'[k].status = (IF isOccupied'[i] THEN "occupied" ELSE "empty")
    ]_vars

\* C24: whenever the status check of a configured, connected device finds that
\* a locker's occupancy has changed, a locker-status message with the new value
\* is sent for that locker in the same loop iteration, however recently the
\* locker was reported.
C24_ChangeReportedAtOnce ==
  [][ ( /\ pc = "tail" /\ lastStatusCheck' # lastStatusCheck
        /\ hwConfigured /\ smConfigured /\ isConnected /\ serverReady )
      => \A i \in 1..numLockers :
           isOccupied'[i] # isOccupied[i]
             => \E k \in 1..Len(sent') :
                  /\ sent'[k].type = "locker_status"
                  /\ sent'[k].lockerId = lockers[i].lockerId
                  /\ sent'[k].status = (IF isOccupied'[i] THEN "occupied" ELSE "empty")
    ]_vars

(* ---------------- properties: NFC access flow ---------------- *)

\* C30: a validation result is acted upon only while a scan awaits validation
\* and within NFC_TIMEOUT of that scan. A result that finds no scan waiting (a
\* duplicate, or an unsolicited one) or that arrives later than NFC_TIMEOUT
\* after the scan moves no locker; a granted result in time toggles the locker
\* it names and ends the wait, so that it is acted upon once.
C30_NfcResultOncePerScanInTime ==
  [][ ( /\ pc = "poll" /\ inbox # << >> /\ inbox' = Tail(inbox)
        /\ Head(inbox).type = "nfc_validation_result" )
      => LET m == Head(inbox)
             i == FindLocker(lockers, numLockers, m.lockerId)
             late == now - nfcScanTime > NFC_TIMEOUT
         IN  /\ ~waitingForValidation => lockers' = lockers
             /\ ( waitingForValidation /\ late ) => lockers' = lockers
             /\ ( waitingForValidation /\ ~late ) => ~waitingForValidation'
             /\ ( waitingForValidation /\ ~late /\ m.valid /\ i # 0 )
                  => lockers'[i].currentPosition # lockers[i].currentPosition
             /\ ~m.valid => lockers' = lockers
    ]_vars

(* ---------------- the secondary controller on its own ---------------- *)

\* a command byte the Arduino's switch has no case for
UnknownCommand == 88

\* command bytes that may arrive on the Arduino's serial input
ControllerCommands ==
  {CMD_LOCK, CMD_UNLOCK, CMD_STATUS, CMD_ONLINE, CMD_OFFLINE, UnknownCommand}

\* index bytes that may follow: '/' (one below '0', which wraps to 255 as
\* uint8_t), '0', '1', '3' and '4'
ControllerIndexBytes == {47, 48, 49, 51, 52}

\* the Arduino after its setup(), the ESP32 idle in its loop and holding no
\* configuration: the serial input is fed by SerialDelivers instead
ControllerInit ==
  /\ variant = "Relayed" /\ framing = "flat" /\ env = "calm"
  /\ prefs = EmptyPrefs
  /\ horizon = 0 /\ budget = 0 /\ cards = 0 /\ flips = 0
  /\ waitingForValidation = FALSE /\ nfcScanTime = 0 /\ lastStatusCheck = 0
  /\ isOccupied = [i \in 1..MAX_LOCKERS |-> FALSE]
  /\ lastStatusUpdate = [i \in 1..MAX_LOCKERS |-> 0]
  /\ irBlocked = [i \in 1..MAX_LOCKERS |-> FALSE]
  /\ hwConfigured = FALSE /\ hwModuleId = "" /\ numLockers = 0 /\ lockers = << >>
  /\ lastStatusRequest = 0
  /\ smModuleId = "" /\ smConfigured = FALSE /\ isConnected = FALSE /\ linkUp = FALSE
  /\ lastPing = 0 /\ lastReconnectAttempt = 0 /\ lastAvailableBroadcast = 0
  /\ now = 0 /\ sent = << >>
  /\ connectAt = -1 /\ connectCalled = FALSE /\ connectGap = -1
  /\ lastBroadcastAt = -1 /\ broadcastGap = -1
  /\ lastPingAt = -1 /\ pingGap = -1
  /\ pc = "loop" /\ cur = NoCommand
  /\ pending = [l \in CommandLockerIds |-> 0]
  /\ result = "none" /\ inbox = << >>
  /\ rx = << >> /\ tx = << >>
  /\ ardLocked = [i \in 1..3 |-> TRUE]
  /\ esp32Online = FALSE
  /\ ardStatusDue = TRUE
  /\ boots = 1 /\ wifiUp = FALSE /\ serverReady = FALSE
  /\ restartCause = "none" /\ preConfig = NoSnapshot
  /\ buttonPressed = FALSE /\ pressStart = 0 /\ lowSince = -1

\* two bytes reach the Arduino's serial input once the previous exchange is over
SerialDelivers ==
  /\ variant = "Relayed"
  /\ horizon = 0
  /\ tx = << >> /\ rx = << >>
  /\ \E command \in ControllerCommands, indexByte \in ControllerIndexBytes :
       tx' = << command, indexByte >>
  /\ UNCHANGED << rx, ardVars >>
  /\ sent' = << >>
  /\ connectCalled' = FALSE
  /\ UNCHANGED << stationVars, storeVars, hwIdVars, lockers, lastStatusRequest, smIdVars,
                  isConnected, timerVars, lastReconnectAttempt, now, pc, cur, pending,
                  result, inbox, linkUp, boots, buttonVars, wifiUp, serverReady, budget, connectLog,
                  broadcastLog, restartLog >>

\* the other end reads everything the Arduino wrote
SerialDrained ==
  /\ variant = "Relayed"
  /\ horizon = 0
  /\ tx = << >> /\ rx # << >>
  /\ rx' = << >>
  /\ UNCHANGED << tx, ardVars >>
  /\ sent' = << >>
  /\ connectCalled' = FALSE
  /\ UNCHANGED << stationVars, storeVars, hwIdVars, lockers, lastStatusRequest, smIdVars,
                  isConnected, timerVars, lastReconnectAttempt, now, pc, cur, pending,
                  result, inbox, linkUp, boots, buttonVars, wifiUp, serverReady, budget, connectLog,
                  broadcastLog, restartLog >>

\* 2000 ms of the Arduino's millis() pass since lastStatusSend
ControllerTimePasses ==
  /\ variant = "Relayed"
  /\ horizon = 0
  /\ ~ardStatusDue
  /\ ardStatusDue' = TRUE
  /\ UNCHANGED << tx, rx, ardLocked, esp32Online >>
  /\ sent' = << >>
  /\ connectCalled' = FALSE
  /\ UNCHANGED << stationVars, storeVars, hwIdVars, lockers, lastStatusRequest, smIdVars,
                  isConnected, timerVars, lastReconnectAttempt, now, pc, cur, pending,
                  result, inbox, linkUp, boots, buttonVars, wifiUp, serverReady, budget, connectLog,
                  broadcastLog, restartLog >>

\* the Arduino's loop() fed with arbitrary two-byte commands
ControllerNext ==
  \/ SerialDelivers
  \/ ArduinoHandle
  \/ ArduinoSendsStatus
  \/ ControllerTimePasses
  \/ SerialDrained

ControllerSpec == ControllerInit /\ [][ControllerNext]_vars

(* ---------------- properties: the secondary controller ---------------- *)

\* C31: when the Arduino reads a Lock or Unlock command whose index i is in
\* 1..3, it sets isLocked of locker i to the commanded value, leaves the other
\* lockers alone, and writes exactly an Ack frame (command, '0'+i, 'A') followed
\* by a status frame ('S', '0'+i, '1' if locked, '2' if unlocked).
C31_ValidCommandAckThenStatus ==
  [][ ( /\ Len(tx) >= 2 /\ tx' = SubSeq(tx, 3, Len(tx))
        /\ tx[1] \in {CMD_LOCK, CMD_UNLOCK}
        /\ tx[2] - ASCII_ZERO \in 1..3 )
      => LET i == tx[2] - ASCII_ZERO
             toLocked == (tx[1] = CMD_LOCK)
         IN  /\ ardLocked'[i] = toLocked
             /\ \A j \in (1..3) \ {i} : ardLocked'[j] = ardLocked[j]
             /\ rx' = rx \o << tx[1], tx[2], RESP_ACK,
                               CMD_STATUS, tx[2],
                               IF ardLocked'[i] THEN RESP_LOCKED ELSE RESP_UNLOCKED >>
    ]_vars

\* the Arduino has just unlocked locker 3: the Ack and the status frame are on
\* the line, in this order
C31_Witness ==
  /\ horizon = 0
  /\ ~ardLocked[3]
  /\ rx = << CMD_UNLOCK, ASCII_ZERO + 3, RESP_ACK, CMD_STATUS, ASCII_ZERO + 3, RESP_UNLOCKED >>

\* C32: when the Arduino reads a Lock or Unlock command whose index is outside
\* 1..3, or a command with an unknown code, it writes exactly one Error frame
\* and changes neither a locker's isLocked nor esp32Online.
C32_InvalidCommandOneError ==
  [][ ( /\ Len(tx) >= 2 /\ tx' = SubSeq(tx, 3, Len(tx))
        /\ \/ ( tx[1] \in {CMD_LOCK, CMD_UNLOCK}
                /\ Byte(tx[2] - ASCII_ZERO) \notin 1..3 )
           \/ tx[1] \notin {CMD_LOCK, CMD_UNLOCK, CMD_STATUS, CMD_ONLINE, CMD_OFFLINE} )
      => /\ rx' = rx \o << tx[1], tx[2], RESP_ERROR >>
         /\ ardLocked' = ardLocked
         /\ esp32Online' = esp32Online
    ]_vars

\* an Unlock for index 4 has been answered with an Error frame while a locker
\* is unlocked and the ESP32 is marked online
C32_Witness ==
  /\ horizon = 0
  /\ rx = << CMD_UNLOCK, ASCII_ZERO + 4, RESP_ERROR >>
  /\ ~ardLocked[1]
  /\ esp32Online

\* C33: the Arduino writes status frames nobody asked for (no command was read
\* in that step) only while esp32Online is true, and then one frame per locker
\* 1, 2, 3; esp32Online turns true only when an Online command is read and
\* false only when an Offline command is read; and every Online or Offline
\* command read is answered with an Ack frame for index 0.
C33_PeriodicStatusOnlyOnline ==
  [][ LET reads == Len(tx) >= 2 /\ tx' = SubSeq(tx, 3, Len(tx))
          ack(c) == rx' = rx \o << c, ASCII_ZERO, RESP_ACK >>
          statusOf(i) == IF ardLocked[i] THEN RESP_LOCKED ELSE RESP_UNLOCKED
      IN  /\ ( tx' = tx /\ Len(rx') > Len(rx) )
                => /\ esp32Online
                   /\ rx' = rx \o << CMD_STATUS, ASCII_ZERO + 1, statusOf(1),
                                     CMD_STATUS, ASCII_ZERO + 2, statusOf(2),
                                     CMD_STATUS, ASCII_ZERO + 3, statusOf(3) >>
          /\ ( ~esp32Online /\ esp32Online' ) => reads /\ tx[1] = CMD_ONLINE
          /\ ( esp32Online /\ ~esp32Online' ) => reads /\ tx[1] = CMD_OFFLINE
          /\ ( reads /\ tx[1] = CMD_ONLINE ) => esp32Online' /\ ack(CMD_ONLINE)
          /\ ( reads /\ tx[1] = CMD_OFFLINE ) => ~esp32Online' /\ ack(CMD_OFFLINE)
    ]_vars

\* the periodic status of an online ESP32 is on the line, with locker 1 unlocked
C33_Witness ==
  /\ horizon = 0
  /\ esp32Online
  /\ ~ardStatusDue
  /\ rx = << CMD_STATUS, ASCII_ZERO + 1, RESP_UNLOCKED,
             CMD_STATUS, ASCII_ZERO + 2, RESP_LOCKED,
             CMD_STATUS, ASCII_ZERO + 3, RESP_LOCKED >>

(* ---------------- the acknowledgment wait, pass by pass ---------------- *)

\* delay(10) at the end of each pass of waitForArduinoResponse's loop
WAIT_POLL_DELAY == 10

\* bytes buffered on the serial input beyond which no stray byte is added
MaxStream == 3

\* inbound messages of a run in which the wait is followed pass by pass
MaxMsgsWait == 1

\* stray bytes on the serial input: one that passes the wait's test when it is
\* the third of a frame, and one that does not
StreamBytes == {RESP_ACK, RESP_ERROR}

\* variation: the loop condition admits one more pass
WaitGoesOnOneMore(t, startTime) == t - startTime <= SERIAL_TIMEOUT

\* waitForArduinoResponse's loop condition
WaitGoesOn(t, startTime) == t - startTime < SERIAL_TIMEOUT

\* one pass of waitForArduinoResponse's loop: a frame is read when three bytes
\* are there; a frame that passes the test ends the wait with true, anything
\* else is followed by delay(10)
WaitPass ==
  /\ pc = "wait"
  /\ WaitGoesOn(now, cur.startTime)
  /\ IF Len(rx) >= 3
     THEN LET cmd == rx[1]
              idx == Byte(rx[2] - ASCII_ZERO)
              resp == rx[3]
          IN  /\ rx' = SubSeq(rx, 4, Len(rx))
              /\ IF AckMatches(cmd, idx, resp, RESP_ACK, lockers[cur.slot].lockerIndex)
                 THEN /\ lockers' = [ProcessArduinoMessage(lockers, numLockers, cmd, idx, resp)
                                       EXCEPT ![cur.slot].currentStatus = TargetStatus(cur.kind)]
                      /\ result' = "ok"
                      /\ pending' = [pending EXCEPT ![cur.lockerId] = @ - 1]
                      /\ sent' = SendStatusUpdate(smConfigured, isConnected, smModuleId,
                                                  cur.lockerId, ReportedStatus(cur.kind, TRUE))
                      /\ pc' = "poll"
                      /\ now' = now
                 ELSE /\ now' = now + WAIT_POLL_DELAY
                      /\ sent' = << >>
                      /\ UNCHANGED << lockers, result, pending, pc >>
     ELSE /\ now' = now + WAIT_POLL_DELAY
          /\ sent' = << >>
          /\ UNCHANGED << rx, lockers, result, pending, pc >>
  /\ connectCalled' = FALSE
  /\ UNCHANGED << storeVars, hwIdVars, lastStatusRequest, smIdVars, isConnected, timerVars,
                  lastReconnectAttempt, cur, inbox, linkUp, tx,
                  ardVars, stationVars, boots, buttonVars, wifiUp, serverReady, budget, connectLog,
                  broadcastLog, restartLog >>

\* waitForArduinoResponse's loop condition fails: it returns false, and the
\* caller goes on to its status report
WaitExpires ==
  /\ pc = "wait"
  /\ ~WaitGoesOn(now, cur.startTime)
  /\ result' = "timeout"
  /\ pending' = [pending EXCEPT ![cur.lockerId] = @ - 1]
  /\ sent' = SendStatusUpdate(smConfigured, isConnected, smModuleId,
                              cur.lockerId, ReportedStatus(cur.kind, FALSE))
  /\ lockers' = [lockers EXCEPT ![cur.slot].currentStatus = TimedOutStatus(@)]
  /\ pc' = "poll"
  /\ connectCalled' = FALSE
  /\ UNCHANGED << storeVars, hwIdVars, lastStatusRequest, smIdVars, isConnected,
                  timerVars, lastReconnectAttempt, now, cur, inbox, linkUp, tx, rx,
                  ardVars, stationVars, boots, buttonVars, wifiUp, serverReady, budget, connectLog,
                  broadcastLog, restartLog >>

\* a stray byte reaches the ESP32's serial input during the wait
ByteArrives ==
  /\ pc = "wait"
  /\ Len(rx) < MaxStream
  /\ \E b \in StreamBytes : rx' = Append(rx, b)
  /\ sent' = << >>
  /\ connectCalled' = FALSE
  /\ UNCHANGED << tx, ardVars, stationVars, storeVars, hwIdVars, lockers, lastStatusRequest,
                  smIdVars, isConnected, timerVars, lastReconnectAttempt, now, pc, cur, pending,
                  result, inbox, linkUp, boots, buttonVars, wifiUp, serverReady, budget, connectLog,
                  broadcastLog, restartLog >>

\* power-on of a configured device with the Relayed HardwareManager, one
\* message from the backend
WaitInit ==
  /\ InitBase
  /\ variant = "Relayed"
  /\ framing = "flat"
  /\ env = "calm"
  /\ prefs # EmptyPrefs
  /\ horizon = MaxTime /\ budget = MaxMsgsWait

\* the steps of the ESP32 inside waitForArduinoResponse
WaitStep ==
  \/ WaitPass
  \/ WaitExpires

\* the Relayed build with the wait followed pass by pass
WaitNext ==
  \/ Setup
  \/ Tick
  \/ LoopReconnect
  \/ LoopPoll
  \/ PollEnd
  \/ DispatchAck
  \/ DispatchCommandRelayed
  \/ WaitStep
  \/ ByteArrives
  \/ DispatchConfiguration
  \/ DispatchUnhandled
  \/ ServerSends
  \/ ArduinoHandle

\* the ESP32 keeps executing the wait's loop; nothing is assumed of the bytes
\* that arrive
WaitSpec ==
  /\ WaitInit
  /\ [][WaitNext]_vars
  /\ WF_vars(WaitStep)

(* ---------------- properties: the acknowledgment wait ---------------- *)

\* C34: waitForArduinoResponse always returns, whatever bytes arrive on the
\* serial input and whether or not any arrive; it returns true only on a frame
\* whose third byte is the expected response, and it returns false exactly when
\* SERIAL_TIMEOUT has elapsed since its start (within one delay of the loop)
\* and no such frame was read.
C34_WaitReturns ==
  /\ (pc = "wait") ~> (pc # "wait")
  /\ [][ ( pc = "wait" /\ pc' # "wait" )
         => /\ result' \in {"ok", "timeout"}
            /\ result' = "ok" => ( Len(rx) >= 3 /\ rx[3] = RESP_ACK
                                   /\ now' - cur.startTime < SERIAL_TIMEOUT )
            /\ result' = "timeout"
                 => /\ now' - cur.startTime >= SERIAL_TIMEOUT
                    /\ now' - cur.startTime < SERIAL_TIMEOUT + WAIT_POLL_DELAY
       ]_vars

\* the wait has returned false after SERIAL_TIMEOUT with two bytes, never
\* three, on the serial input
C34_Witness ==
  /\ pc = "poll"
  /\ result = "timeout"
  /\ Len(rx) = 2
  /\ now - cur.startTime = SERIAL_TIMEOUT

(* ---------------- properties: the session's timers ---------------- *)

\* C35: whenever setup() runs ServerManager::initialize, that call makes one
\* connection attempt (webSocket->connect is called), however early after
\* boot it runs.
C35_InitializeConnects ==
  [][ ( pc = "boot" /\ pc' # "boot" /\ serverReady' ) => connectCalled' ]_vars

(* ---------------- the heartbeat over a long run ---------------- *)

\* millis() bound of the runs that follow the heartbeat
MaxTimePing == 125000

\* power-on of a configured device with the Direct HardwareManager and a
\* backend that sends nothing, pongs included
PingInit ==
  /\ InitBase
  /\ variant = "Direct"
  /\ framing = "flat"
  /\ env = "server-faults"
  /\ prefs # EmptyPrefs
  /\ horizon = MaxTimePing /\ budget = 0

\* the session's life cycle without inbound messages
PingNext ==
  \/ Setup
  \/ Tick
  \/ LoopReconnect
  \/ LoopPoll
  \/ PollEnd
  \/ DispatchClosed
  \/ ConnectionCloses

PingSpec == PingInit /\ [][PingNext]_vars

MaxTimeButton == 45000

\* one iteration of loop() in provisioning mode with no form posted: the button
\* is polled, handleProvisioning serves no client, and time passes before the
\* next iteration is looked at
ProvisioningIdle ==
  /\ pc = "provisioning"
  /\ ButtonPolled
  /\ now + TickMs <= horizon
  /\ now' = now + TickMs
  /\ sent' = << >>
  /\ connectCalled' = FALSE
  /\ UNCHANGED << storeVars, hwIdVars, lockers, lastStatusRequest, smIdVars, isConnected,
                  timerVars, lastReconnectAttempt, pc, cur, pending, result, inbox, linkUp,
                  tx, rx, ardVars, stationVars, boots, wifiUp, serverReady, budget,
                  connectLog, broadcastLog, restartLog >>

\* power-on of a device with the Direct HardwareManager whose config button
\* may be pressed and released at will, fresh from the factory or provisioned,
\* where WiFi and the server may fail and the backend sends nothing
ButtonInit ==
  /\ InitMemory
  /\ variant = "Direct"
  /\ framing = "flat"
  /\ env = "button"
  /\ prefs \in InitialPrefs \cup { ClearedStore(EmptyPrefs) }
  /\ cards = 0 /\ flips = 0
  /\ horizon = MaxTimeButton /\ budget = 0

\* every kind of loop() iteration, each with the button polled first
ButtonNext ==
  \/ Setup
  \/ Tick
  \/ FactoryReset
  \/ ProvisioningIdle
  \/ ProvisioningConfigure
  \/ WifiReconnect
  \/ LoopOffline
  \/ LoopReconnect
  \/ LoopPoll
  \/ PollEnd
  \/ DispatchClosed
  \/ ConnectionCloses

ButtonSpec == ButtonInit /\ [][ButtonNext]_vars

(* ---------------- properties: the config button ---------------- *)

\* C37: a factory reset is requested only at a poll that reads the button
\* pressed and closes an unbroken run of pressed polls spanning more than
\* CONFIG_BUTTON_HOLD_TIME; a poll that reads it released leaves no measurement
\* running, and a measurement under way started at the first pressed poll of
\* the run; and the check comes first in the iteration: the iteration that
\* requests the reset does nothing else (no message, no connect, no WiFi or
\* provisioning work), and no iteration does any work while the hold is
\* complete and the button is still read pressed.
C37_ResetOnlyAfterHold ==
  [][ LET requested == restartCause' = "factory-reset" /\ restartCause # "factory-reset"
          idle == /\ sent' = << >> /\ ~connectCalled'
                  /\ wifiUp' = wifiUp /\ isConnected' = isConnected
                  /\ lastReconnectAttempt' = lastReconnectAttempt
                  /\ tx' = tx
      IN  /\ requested => /\ lowSince # -1
                          /\ now - lowSince > CONFIG_BUTTON_HOLD_TIME
                          /\ idle /\ now' = now
          /\ lowSince' = -1 => ~buttonPressed'
          /\ buttonPressed' => pressStart' = lowSince'
          /\ ( /\ pc \in {"loop", "provisioning"}
               /\ buttonPressed /\ now - pressStart > CONFIG_BUTTON_HOLD_TIME
               /\ buttonPressed' )
             => ( idle /\ pc' = pc /\ prefs' = prefs )
    ]_vars

\* a reset has been requested, after a hold of more than CONFIG_BUTTON_HOLD_TIME,
\* by an iteration that found WiFi down and did not try to recover it
C37_Witness ==
  /\ env = "button"
  /\ restartCause = "factory-reset"
  /\ pc = "boot"
  /\ ~wifiUp
  /\ lowSince # -1 /\ now - lowSince > CONFIG_BUTTON_HOLD_TIME

(* ---------------- properties: truthful reporting ---------------- *)

\* C38: every status_update with status "locked" or "unlocked" that the device
\* sends names a configured locker whose recorded state, at the moment of
\* sending, is the reported one, and none is sent when the actuation call
\* returned failure (unknown locker id, or no acknowledgment in time).
C38_ReportsRecordedState ==
  [][ \A k \in 1..Len(sent') :
        ( sent'[k].type = "status_update" /\ sent'[k].status \in {"locked", "unlocked"} )
        => LET i == FindLocker(lockers', numLockers', sent'[k].lockerId)
           IN  /\ i # 0
               /\ result' \notin {"not-found", "timeout"}
               /\ IF variant = "Relayed"
                  THEN lockers'[i].currentStatus = sent'[k].status
                  ELSE lockers'[i].currentPosition
                         = ( IF sent'[k].status = "locked" THEN LOCK_POSITION
                             ELSE OPEN_POSITION )
    ]_vars

(* ---------------- properties: configuration across a restart ---------------- *)

\* C39: after a module_configured push followed by the restart, a device that
\* considers itself configured has 1 <= numLockers <= MAX_LOCKERS, its locker
\* array is allocated with numLockers entries, and every locker the persisted
\* count covers has a persisted id that the registry finds; in every build.
C39_ConfigurationConsistentAfterRestart ==
  [][ ( /\ pc = "boot"
        /\ restartCause \in {"configuration-applied", "configuration-rejected"}
        /\ pc' # "boot"
        /\ hwConfigured' )
      => /\ 1 <= numLockers' /\ numLockers' <= MAX_LOCKERS
         /\ Len(lockers') = numLockers'
         /\ prefs'.numLockers = numLockers'
         /\ \A i \in 0..(prefs'.numLockers - 1) :
              /\ i < MAX_LOCKERS
              /\ prefs'.locker[i] # ""
              /\ FindLocker(lockers', numLockers', prefs'.locker[i]) # 0
    ]_vars

(* ---------------- properties: serial frame alignment ---------------- *)

\* C40: the ESP32 takes the secondary controller's bytes off the serial link in
\* whole 3-byte frames (command, '0' + index, response): whenever
\* HardwareManager::loop or waitForArduinoResponse consumes bytes, it consumes a
\* multiple of three of them, beginning at a frame boundary, whatever part of
\* the written bytes has arrived when it reads; no part of a frame is dropped
\* and no frame is split (so that the status frames that follow a last command
\* bring the recorded state to the Arduino's isLocked).
C40_WholeFramesConsumed ==
  [][ ( pc # "boot" /\ Len(rx') < Len(rx) )
      => /\ Len(rx) % 3 = 0
         /\ ( Len(rx) - Len(rx') ) % 3 = 0
    ]_vars

====
